---- MODULE Spec2Model ----
(***************************************************************************)
(* A model of emap, an in-memory map with N:M secondary indices.           *)
(*                                                                         *)
(* The store is three Go maps kept together:                               *)
(*   values  : key   -> value                                              *)
(*   keys    : key   -> slice of the indices attached to the key           *)
(*   indices : index -> slice of the keys carrying the index               *)
(*                                                                         *)
(* The engine functions (insert, fetchByKey, fetchByIndex, deleteByKey,    *)
(* deleteByIndex, addIndex, removeIndex) are operators translated from the *)
(* source.  A Go slice is a window on a backing array: removeIndex shrinks *)
(* a slice by shifting the tail of the backing array to the left in place, *)
(* while a `for range` loop keeps reading the backing array through the    *)
(* header (pointer, length) it took when the loop started.  The operators  *)
(* that remove therefore carry the backing arrays (mem) next to the maps.  *)
(*                                                                         *)
(* Spec has every method as one step, as a single goroutine sees them,     *)
(* called with the indices one by one as in every call of the tests;       *)
(* SliceSpec has a caller that passes one slice of indices to its Inserts, *)
(* which insert keeps, so that the keys share its backing array.           *)
(* LockSpec has the methods of the lock-guarded store step by step (Lock,  *)
(* body, Unlock), called by several goroutines next to collect, the        *)
(* goroutine of an expirable store; FairLockSpec adds a fair scheduler and *)
(* FairTickSpec a ticker that keeps firing.  ExpSpec has the calls on an   *)
(* expirable store as one step each, next to collect, whose loop goes      *)
(* round by round while the callers set their values expired.              *)
(* StrictSpec has the calls on a type-checked store made from samples of   *)
(* every kind, with arguments of the right and of the wrong types.         *)
(* CallbackSpec is LockSpec with Foreach and Transform step by step and     *)
(* callbacks that call the store they are called by.  ResultSpec has a     *)
(* caller that keeps what FetchByIndex and Transform returned, with the    *)
(* object each result points to.                                           *)
(***************************************************************************)
EXTENDS Integers, Sequences, FiniteSets, TLC

\* The arguments the calls are made with, named as in the tests.
Keys == {"key1", "key2", "key3"}
Indices == {"index1", "index2", "index3"}
Vals == {"value1", "value2", "value3"}

\* The value a key is inserted with: key1 with value1 and so on, as in the
\* tests.  The engine never looks into a value, so the properties give the
\* calls they examine every value of Vals.
ValueOf(key) ==
    CASE key = "key1" -> "value1"
      [] key = "key2" -> "value2"
      [] OTHER -> "value3"

\* An Insert passes at most MaxIdx indices.
MaxIdx == 3

\* The store holds at most MaxPairs (key, index) entries in each direction.
MaxPairs == 3

\* The nil interface value: what a Go map read returns for a missing key.
Nil == "<nil>"

\* A nil error.
NoErr == "nil"

\* The goroutines that call the store, and the one NewExpirableEMap starts.
Callers == {"caller1", "caller2"}
Collector == "collect"
Procs == Callers \cup {Collector}

\* The store: its three maps, its interval and its sync.RWMutex.  mtx.w says
\* whether a Lock is held ("held"), announced and waiting for the readers to
\* leave ("pending") or neither ("free"); mtx.r counts the RLocks held.
\* pc is the place of each goroutine in the method it runs, and local what
\* it keeps between two steps: the key of an insert under way, or the error
\* the method is about to return.  strict is what a StrictEMap has on top:
\* the kinds of its samples and the name of the struct of its value sample,
\* next to the samples NewStrictEMap was given and the error it returned.
\* iter is, for a goroutine inside a Foreach or a Transform, the method and
\* the keys that its `for range` over m.values has still to come to.
\* result is the slice or the map that the last FetchByIndex or Transform
\* returned and that its caller still holds: the method, the object that the
\* reference points to (ref: one that the method made, or a map of the store)
\* and, for an object that the method made, what is in it.  expired is the
\* set of the structs of Structs whose field expired is true.  slice is the
\* slice of indices that a caller made and passes to Insert as `s...`: the
\* array under it (arr) and the stored keys whose list of indices is that
\* very slice (keys), since insert keeps the slice it is given.
VARIABLES values, keys, indices, interval, strict, mtx, pc, local, iter, result, expired,
          slice

vars == <<values, keys, indices, interval, strict, mtx, pc, local, iter, result, expired,
          slice>>

\* The values of the tests that have the method IsExpired: an expirebleStruct
\* with expired false and one with expired true, for the parts that look at
\* a value only through the store.
ExpirableVals == {"expirable", "expired"}

\* The pointers that new(expirebleStruct) gave the callers, for the part
\* that looks at a value through a result as well: the store and the results
\* hold the pointer, and the field expired is the struct's.
Structs == {"struct1", "struct2"}

\* reflect.TypeOf(value).MethodByName("IsExpired") finds the method.
hasIsExpired(value) == value \in ExpirableVals \cup Structs

\* value.(ExpirableValue).IsExpired()
IsExpired(value) == value = "expired" \/ value \in expired

\* A sync.RWMutex that nobody holds.
FreeMtx == [w |-> "free", r |-> 0]

\* No caller has made a slice of indices: the calls pass their indices one by
\* one, and Go makes an array of its own for every call.
NoShared == [arr |-> <<>>, keys |-> {}]

\* No result is held: the nil slice and the nil map.
NoResult == [method |-> "", ref |-> "nil", slice |-> <<>>, map |-> [x \in {} |-> x]]

\* The goroutine is in no Foreach and no Transform.
NoIter == [method |-> "", todo |-> <<>>]

\* The store is no StrictEMap: no samples, and the zero reflect.Kind.
NoStrict ==
    [sample |-> <<>>, err |-> NoErr, keyType |-> "invalid", indexType |-> "invalid",
     valueType |-> "invalid", valueStruct |-> ""]

----------------------------------------------------------------------------
(* Go maps and slices *)

EmptyMap == [x \in {} |-> x]

\* m[k] = v
Put(m, k, v) == [x \in (DOMAIN m) \cup {k} |-> IF x = k THEN v ELSE m[x]]

\* delete(m, k)
Del(m, k) == [x \in (DOMAIN m) \ {k} |-> m[x]]

Range(s) == {s[j] : j \in 1..Len(s)}

\* The position (from 1) of the first element of s equal to x, 0 if none:
\* the loop `for i, each := range s { if each == x { ...; break } }`.
RECURSIVE firstFrom(_, _, _)
firstFrom(s, x, j) ==
    IF j > Len(s) THEN 0
    ELSE IF s[j] = x THEN j
    ELSE firstFrom(s, x, j + 1)

firstPos(s, x) == firstFrom(s, x, 1)

\* cutAt with the last element moved into the hole instead of the tail
\* moved to the left.
cutAtSwap(s, i) ==
    IF i = Len(s)
    THEN SubSeq(s, 1, i - 1)
    ELSE SubSeq(s, 1, i - 1) \o <<s[Len(s)]>> \o SubSeq(s, i + 1, Len(s) - 1)

\* The slice s without its element at position i (from 1): s[:i] when it is
\* the last one, append(s[:i], s[i+1:]...) otherwise.
cutAt(s, i) ==
    IF i = Len(s)
    THEN SubSeq(s, 1, i - 1)
    ELSE SubSeq(s, 1, i - 1) \o SubSeq(s, i + 1, Len(s))

\* The backing array arr of the slice s after cutAt(s, i): both branches
\* leave the array where it is; the second moves s[i+1:] one place to the
\* left, so the old last element stays behind at position Len(s).
cutMem(arr, s, i) ==
    IF i = Len(s)
    THEN arr
    ELSE SubSeq(s, 1, i - 1) \o SubSeq(s, i + 1, Len(s)) \o SubSeq(arr, Len(s), Len(arr))

\* The backing arrays at the start of a call: those of the slices stored in
\* the two maps (k, i), each its own, but for the keys of ks, whose slices
\* all start at the first element of the one array s of the caller's slice.
\* arg is the array under the slice `indices` that an Insert is called with:
\* "new" for the array Go makes when the indices are passed one by one, "s"
\* when the caller passes its slice with `s...`.
Mem(keyStore, indexStore) ==
    [k |-> keyStore, i |-> indexStore, s |-> slice.arr, ks |-> slice.keys, arg |-> "new"]

\* The arrays at the start of the call Insert(key, value, s...).
MemOfSlice(keyStore, indexStore) == [Mem(keyStore, indexStore) EXCEPT !.arg = "s"]

\* The arrays as the next call finds them after the call that returned r.
MemAfter(r) == [r.mem EXCEPT !.k = r.keys, !.i = r.indices, !.arg = "new"]

\* The caller's slice and the keys that have it, after a call.
Shared(mem) == [arr |-> mem.s, keys |-> mem.ks]

\* The backing array of keyStore[key].
keyArr(mem, key) == IF key \in mem.ks THEN mem.s ELSE mem.k[key]

\* A write to the backing array of keyStore[key], which is now arr.
putKeyArr(mem, key, arr) ==
    IF key \in mem.ks THEN [mem EXCEPT !.s = arr] ELSE [mem EXCEPT !.k = Put(@, key, arr)]

\* The lists of indices as they are read after a write to an array: a slice
\* is its length and its array, so that every key of ks finds, under its own
\* length, what is in the one array now.
Seen(mem, keyStore) ==
    [k \in DOMAIN keyStore |->
        IF k \in mem.ks THEN SubSeq(mem.s, 1, Len(keyStore[k])) ELSE keyStore[k]]

----------------------------------------------------------------------------
(* The engine *)

RECURSIVE insertLoop(_, _, _, _)
insertLoop(indexStore, key, idxs, j) ==
    IF j > Len(idxs) THEN indexStore
    ELSE LET index == idxs[j]
         IN  insertLoop(IF index \in DOMAIN indexStore
                        THEN Put(indexStore, index, Append(indexStore[index], key))
                        ELSE Put(indexStore, index, <<key>>),
                        key, idxs, j + 1)

\* insert without the check for a key that is already stored.
insertOverwrites(mem, valueStore, keyStore, indexStore, key, value, idxs) ==
    [mem |-> IF mem.arg = "s" THEN [mem EXCEPT !.ks = @ \cup {key}] ELSE mem,
     values |-> Put(valueStore, key, value),
     keys |-> Put(keyStore, key, idxs),
     indices |-> insertLoop(indexStore, key, idxs, 1),
     err |-> NoErr]

\* `keyStore[key] = indices` keeps the slice that insert is given, its array
\* with it: the key that is inserted with the caller's slice joins the keys
\* that have it.
insert(mem, valueStore, keyStore, indexStore, key, value, idxs) ==
    IF key \in DOMAIN keyStore
    THEN [mem |-> mem, values |-> valueStore, keys |-> keyStore, indices |-> indexStore,
          err |-> "key duplicte"]
    ELSE [mem |-> IF mem.arg = "s" THEN [mem EXCEPT !.ks = @ \cup {key}] ELSE mem,
          values |-> Put(valueStore, key, value),
          keys |-> Put(keyStore, key, idxs),
          indices |-> insertLoop(indexStore, key, idxs, 1),
          err |-> NoErr]

fetchByKey(valueStore, key) ==
    IF key \in DOMAIN valueStore
    THEN [value |-> valueStore[key], err |-> NoErr]
    ELSE [value |-> Nil, err |-> "key not exist"]

fetchByIndex(valueStore, indexStore, index) ==
    IF index \in DOMAIN indexStore
    THEN [values |-> [j \in 1..Len(indexStore[index]) |->
                        IF indexStore[index][j] \in DOMAIN valueStore
                        THEN valueStore[indexStore[index][j]]
                        ELSE Nil],
          err |-> NoErr]
    ELSE [values |-> <<>>, err |-> "index not exist"]

\* removeIndex without the delete of an index left with no key.
removeIndexKeepsEmpty(mem, keyStore, indexStore, key, index) ==
    IF key \notin DOMAIN keyStore
    THEN [mem |-> mem, keys |-> keyStore, indices |-> indexStore, err |-> "key not exist"]
    ELSE IF index \notin DOMAIN indexStore
    THEN [mem |-> mem, keys |-> keyStore, indices |-> indexStore, err |-> "index not exist"]
    ELSE LET i == firstPos(keyStore[key], index)
             memk == IF i = 0 THEN mem
                     ELSE putKeyArr(mem, key, cutMem(keyArr(mem, key), keyStore[key], i))
             keys1 == IF i = 0 THEN keyStore
                      ELSE Seen(memk, Put(keyStore, key, cutAt(keyStore[key], i)))
             j == firstPos(indexStore[index], key)
             indices1 == IF j = 0 THEN indexStore
                         ELSE Put(indexStore, index, cutAt(indexStore[index], j))
             memi == IF j = 0 THEN mem.i
                     ELSE Put(mem.i, index, cutMem(mem.i[index], indexStore[index], j))
         IN  [mem |-> [memk EXCEPT !.i = memi], keys |-> keys1, indices |-> indices1,
              err |-> NoErr]

\* removeIndex with its two checks the other way round: the index first.
removeIndexIndexFirst(mem, keyStore, indexStore, key, index) ==
    IF index \notin DOMAIN indexStore
    THEN [mem |-> mem, keys |-> keyStore, indices |-> indexStore, err |-> "index not exist"]
    ELSE IF key \notin DOMAIN keyStore
    THEN [mem |-> mem, keys |-> keyStore, indices |-> indexStore, err |-> "key not exist"]
    ELSE LET i == firstPos(keyStore[key], index)
             memk == IF i = 0 THEN mem
                     ELSE putKeyArr(mem, key, cutMem(keyArr(mem, key), keyStore[key], i))
             keys1 == IF i = 0 THEN keyStore
                      ELSE Seen(memk, Put(keyStore, key, cutAt(keyStore[key], i)))
             j == firstPos(indexStore[index], key)
             indices1 == IF j = 0 THEN indexStore
                         ELSE Put(indexStore, index, cutAt(indexStore[index], j))
             memi == IF j = 0 THEN mem.i
                     ELSE Put(mem.i, index, cutMem(mem.i[index], indexStore[index], j))
             indices2 == IF Len(indices1[index]) = 0 THEN Del(indices1, index)
                         ELSE indices1
         IN  [mem |-> [memk EXCEPT !.i = memi], keys |-> keys1, indices |-> indices2,
              err |-> NoErr]

removeIndex(mem, keyStore, indexStore, key, index) ==
    IF key \notin DOMAIN keyStore
    THEN [mem |-> mem, keys |-> keyStore, indices |-> indexStore, err |-> "key not exist"]
    ELSE IF index \notin DOMAIN indexStore
    THEN [mem |-> mem, keys |-> keyStore, indices |-> indexStore, err |-> "index not exist"]
    ELSE LET i == firstPos(keyStore[key], index)
             memk == IF i = 0 THEN mem
                     ELSE putKeyArr(mem, key, cutMem(keyArr(mem, key), keyStore[key], i))
             keys1 == IF i = 0 THEN keyStore
                      ELSE Seen(memk, Put(keyStore, key, cutAt(keyStore[key], i)))
             j == firstPos(indexStore[index], key)
             indices1 == IF j = 0 THEN indexStore
                         ELSE Put(indexStore, index, cutAt(indexStore[index], j))
             memi == IF j = 0 THEN mem.i
                     ELSE Put(mem.i, index, cutMem(mem.i[index], indexStore[index], j))
             indices2 == IF Len(indices1[index]) = 0 THEN Del(indices1, index)
                         ELSE indices1
         IN  [mem |-> [memk EXCEPT !.i = memi], keys |-> keys1, indices |-> indices2,
              err |-> NoErr]

\* `for _, index := range keyStore[key] { removeIndex(...) }`: n is the length
\* of the slice when the loop started, and the j-th index is read from the
\* backing array as it is at the j-th iteration.
RECURSIVE deleteByKeyLoop(_, _, _, _, _, _)
deleteByKeyLoop(mem, keyStore, indexStore, key, n, j) ==
    IF j > n THEN [mem |-> mem, keys |-> keyStore, indices |-> indexStore]
    ELSE LET r == removeIndex(mem, keyStore, indexStore, key, keyArr(mem, key)[j])
         IN  deleteByKeyLoop(r.mem, r.keys, r.indices, key, n, j + 1)

\* deleteByKey without delete(valueStore, key).
deleteByKeyKeepsValue(mem, valueStore, keyStore, indexStore, key) ==
    IF key \notin DOMAIN keyStore
    THEN [mem |-> mem, values |-> valueStore, keys |-> keyStore, indices |-> indexStore,
          err |-> "key not exist"]
    ELSE LET r == deleteByKeyLoop(mem, keyStore, indexStore, key, Len(keyStore[key]), 1)
         IN  [mem |-> [r.mem EXCEPT !.ks = @ \ {key}], values |-> valueStore,
              keys |-> Del(r.keys, key),
              indices |-> r.indices, err |-> NoErr]

deleteByKey(mem, valueStore, keyStore, indexStore, key) ==
    IF key \notin DOMAIN keyStore
    THEN [mem |-> mem, values |-> valueStore, keys |-> keyStore, indices |-> indexStore,
          err |-> "key not exist"]
    ELSE LET r == deleteByKeyLoop(mem, keyStore, indexStore, key, Len(keyStore[key]), 1)
         IN  [mem |-> [r.mem EXCEPT !.ks = @ \ {key}], values |-> Del(valueStore, key),
              keys |-> Del(r.keys, key),
              indices |-> r.indices, err |-> NoErr]

\* `for _, key := range indexStore[index] { deleteByKey(...) }`, read through
\* the slice header taken when the loop started, as in deleteByKeyLoop.
RECURSIVE deleteByIndexLoop(_, _, _, _, _, _, _)
deleteByIndexLoop(mem, valueStore, keyStore, indexStore, index, n, j) ==
    IF j > n THEN [mem |-> mem, values |-> valueStore, keys |-> keyStore,
                   indices |-> indexStore]
    ELSE LET r == deleteByKey(mem, valueStore, keyStore, indexStore, mem.i[index][j])
         IN  deleteByIndexLoop(r.mem, r.values, r.keys, r.indices, index, n, j + 1)

\* deleteByIndex that returns nil for an index the store does not have.
deleteByIndexSilent(mem, valueStore, keyStore, indexStore, index) ==
    IF index \notin DOMAIN indexStore
    THEN [mem |-> mem, values |-> valueStore, keys |-> keyStore, indices |-> indexStore,
          err |-> NoErr]
    ELSE LET r == deleteByIndexLoop(mem, valueStore, keyStore, indexStore, index,
                                    Len(indexStore[index]), 1)
         IN  [mem |-> r.mem, values |-> r.values, keys |-> r.keys, indices |-> r.indices,
              err |-> NoErr]

deleteByIndex(mem, valueStore, keyStore, indexStore, index) ==
    IF index \notin DOMAIN indexStore
    THEN [mem |-> mem, values |-> valueStore, keys |-> keyStore, indices |-> indexStore,
          err |-> "index not exist"]
    ELSE LET r == deleteByIndexLoop(mem, valueStore, keyStore, indexStore, index,
                                    Len(indexStore[index]), 1)
         IN  [mem |-> r.mem, values |-> r.values, keys |-> r.keys, indices |-> r.indices,
              err |-> NoErr]

\* `keyStore[key] = append(keyStore[key], index)`: append writes into the
\* array of the slice while the array has room behind the slice, and into a
\* new array otherwise.  Only the array of the caller's slice is the array
\* of other slices as well: mem is that array after the append, with the key
\* no longer among the keys that have it when the append left it.
appendIndex(mem, keyStore, key, index) ==
    IF key \in mem.ks /\ Len(keyStore[key]) < Len(mem.s)
    THEN [mem EXCEPT !.s = [@ EXCEPT ![Len(keyStore[key]) + 1] = index]]
    ELSE [mem EXCEPT !.ks = @ \ {key}]

\* addIndex without the check for an index the key already has.
addIndexNoCheck(mem, keyStore, indexStore, key, index) ==
    IF key \notin DOMAIN keyStore
    THEN [mem |-> mem, keys |-> keyStore, indices |-> indexStore, err |-> "key not exist"]
    ELSE LET mem1 == appendIndex(mem, keyStore, key, index)
         IN  [mem |-> mem1,
              keys |-> Seen(mem1, Put(keyStore, key, Append(keyStore[key], index))),
              indices |-> IF index \in DOMAIN indexStore
                          THEN Put(indexStore, index, Append(indexStore[index], key))
                          ELSE Put(indexStore, index, <<key>>),
              err |-> NoErr]

addIndex(mem, keyStore, indexStore, key, index) ==
    IF key \notin DOMAIN keyStore
    THEN [mem |-> mem, keys |-> keyStore, indices |-> indexStore, err |-> "key not exist"]
    ELSE IF index \in Range(keyStore[key])
    THEN [mem |-> mem, keys |-> keyStore, indices |-> indexStore, err |-> "index duplicte"]
    ELSE LET mem1 == appendIndex(mem, keyStore, key, index)
         IN  [mem |-> mem1,
              keys |-> Seen(mem1, Put(keyStore, key, Append(keyStore[key], index))),
              indices |-> IF index \in DOMAIN indexStore
                          THEN Put(indexStore, index, Append(indexStore[index], key))
                          ELSE Put(indexStore, index, <<key>>),
              err |-> NoErr]

\* insert without the check of GenericEMap.Insert for the method IsExpired.
GenericEMapInsertUnchecked(itv, mem, valueStore, keyStore, indexStore, key, value, idxs) ==
    insert(mem, valueStore, keyStore, indexStore, key, value, idxs)

\* The body of GenericEMap.Insert under the lock: a store with an interval
\* takes only the values that have the method IsExpired.
GenericEMapInsert(itv, mem, valueStore, keyStore, indexStore, key, value, idxs) ==
    IF itv > 0 /\ ~hasIsExpired(value)
    THEN [mem |-> mem, values |-> valueStore, keys |-> keyStore, indices |-> indexStore,
          err |-> "value type wrong"]
    ELSE insert(mem, valueStore, keyStore, indexStore, key, value, idxs)

\* What a Transform callback returns for (key, value): an error for the keys
\* it fails on, as the callback of the tests does for "keyError", and
\* otherwise a new value made of the two arguments.
callback(fails, key, value) ==
    IF key \in fails
    THEN [value |-> Nil, err |-> "error key"]
    ELSE [value |-> <<key, value>>, err |-> NoErr]

\* `for key, value := range valueStore` of transform.  Go leaves the order of
\* a map's iteration open: order is the one this run takes.  calls are the
\* invocations of the callback so far.
RECURSIVE transformLoop(_, _, _, _, _, _)
transformLoop(valueStore, order, fails, j, targets, calls) ==
    IF j > Len(order) THEN [targets |-> targets, err |-> NoErr, calls |-> calls]
    ELSE LET key == order[j]
             c == callback(fails, key, valueStore[key])
             called == Append(calls, <<key, valueStore[key]>>)
         IN  IF c.err # NoErr
             THEN [targets |-> EmptyMap, err |-> c.err, calls |-> called]
             ELSE transformLoop(valueStore, order, fails, j + 1,
                                Put(targets, key, c.value), called)

\* transform that returns what it has when the callback fails.
transformPartial(valueStore, order, fails) ==
    LET at == {j \in 1..Len(order) : order[j] \in fails}
        stop == IF at = {} THEN Len(order) ELSE (CHOOSE j \in at : \A o \in at : j <= o) - 1
        r == transformLoop(valueStore, SubSeq(order, 1, stop), {}, 1, EmptyMap, <<>>)
    IN  [targets |-> r.targets, err |-> IF at = {} THEN NoErr ELSE "error key",
         calls |-> r.calls]

\* transform that passes the value of the first key to every call.
transformFirstValue(valueStore, order, fails) ==
    IF order = <<>> THEN transformLoop(valueStore, order, fails, 1, EmptyMap, <<>>)
    ELSE transformLoop([k \in DOMAIN valueStore |-> valueStore[order[1]]],
                       order, fails, 1, EmptyMap, <<>>)

transform(valueStore, order, fails) ==
    transformLoop(valueStore, order, fails, 1, EmptyMap, <<>>)

\* foreach that stops after the first pair.
foreachFirstOnly(valueStore, order) ==
    [j \in 1..(IF Len(order) > 1 THEN 1 ELSE Len(order)) |->
        <<order[j], valueStore[order[j]]>>]

\* foreach: the invocations of the callback, in the order of the iteration.
foreach(valueStore, order) ==
    [j \in 1..Len(order) |-> <<order[j], valueStore[order[j]]>>]

----------------------------------------------------------------------------
(* The accessors of the store *)

KeyNum == Cardinality(DOMAIN keys)

KeyNumOfIndex(index) == IF index \in DOMAIN indices THEN Len(indices[index]) ELSE 0

IndexNum == Cardinality(DOMAIN indices)

IndexNumOfKey(key) == IF key \in DOMAIN keys THEN Len(keys[key]) ELSE 0

HasKey(key) == key \in DOMAIN keys

HasIndex(index) == index \in DOMAIN indices

FetchByKey(key) == fetchByKey(values, key)

FetchByIndex(index) == fetchByIndex(values, indices, index)

----------------------------------------------------------------------------
(* The calls *)

\* The lists of indices of length 0..n.
RECURSIVE IndexLists(_)
IndexLists(n) ==
    IF n = 0 THEN {<<>>}
    ELSE LET shorter == IndexLists(n - 1)
         IN  shorter \cup {Append(s, i) : s \in {t \in shorter : Len(t) = n - 1}, i \in Indices}

RECURSIVE SumLen(_, _)
SumLen(m, D) ==
    IF D = {} THEN 0
    ELSE LET x == CHOOSE y \in D : TRUE
         IN  Len(m[x]) + SumLen(m, D \ {x})

\* The number of entries the store can still take in both directions.
Room ==
    LET k == SumLen(keys, DOMAIN keys)
        i == SumLen(indices, DOMAIN indices)
    IN  MaxPairs - (IF k > i THEN k ELSE i)

\* The lists of indices an Insert is called with.
Args == IndexLists(IF Room < MaxIdx THEN Room ELSE MaxIdx)

\* The (key, index) pairs of K and I that AddIndex is called with: all of
\* them while the store has room, and then those for which the call returns
\* an error and adds nothing.
AddArgs(K, I) ==
    {a \in K \X I : Room >= 1 \/ addIndex(Mem(keys, indices), keys, indices, a[1], a[2]).err # NoErr}

\* NewGenericEMap(): three empty maps and the zero interval.
NewGenericEMap ==
    [values |-> EmptyMap, keys |-> EmptyMap, indices |-> EmptyMap, interval |-> 0]

\* NewGenericEMap: three empty maps, interval 0, an unlocked mutex.
Init ==
    /\ values = EmptyMap
    /\ keys = EmptyMap
    /\ indices = EmptyMap
    /\ interval = 0
    /\ strict = NoStrict
    /\ mtx = FreeMtx
    /\ pc = [p \in Procs |-> "idle"]
    /\ local = [p \in Procs |-> Nil]
    /\ iter = [p \in Procs |-> NoIter]
    /\ result = NoResult
    /\ expired = {}
    /\ slice = NoShared

\* The calls below are whole methods: each takes the lock, runs and gives the
\* lock back, so that it leaves the mutex and the goroutines as they were.
\* Insert is called with its indices one by one, Insert(key, value, i1, i2):
\* Go makes the slice `indices` and its array for the call.
Insert(key, value, idxs) ==
    LET r == GenericEMapInsert(interval, Mem(keys, indices), values, keys, indices, key, value, idxs)
    IN  /\ values' = r.values
        /\ keys' = r.keys
        /\ indices' = r.indices
        /\ slice' = Shared(r.mem)
        /\ UNCHANGED <<interval, strict, mtx, pc, local, iter, result, expired>>

DeleteByKey(key) ==
    LET r == deleteByKey(Mem(keys, indices), values, keys, indices, key)
    IN  /\ values' = r.values
        /\ keys' = r.keys
        /\ indices' = r.indices
        /\ slice' = Shared(r.mem)
        /\ UNCHANGED <<interval, strict, mtx, pc, local, iter, result, expired>>

DeleteByIndex(index) ==
    LET r == deleteByIndex(Mem(keys, indices), values, keys, indices, index)
    IN  /\ values' = r.values
        /\ keys' = r.keys
        /\ indices' = r.indices
        /\ slice' = Shared(r.mem)
        /\ UNCHANGED <<interval, strict, mtx, pc, local, iter, result, expired>>

AddIndex(key, index) ==
    LET r == addIndex(Mem(keys, indices), keys, indices, key, index)
    IN  /\ keys' = r.keys
        /\ indices' = r.indices
        /\ slice' = Shared(r.mem)
        /\ UNCHANGED <<values, interval, strict, mtx, pc, local, iter, result, expired>>

RemoveIndex(key, index) ==
    LET r == removeIndex(Mem(keys, indices), keys, indices, key, index)
    IN  /\ keys' = r.keys
        /\ indices' = r.indices
        /\ slice' = Shared(r.mem)
        /\ UNCHANGED <<values, interval, strict, mtx, pc, local, iter, result, expired>>

\* The orders in which a `for range` may go through the map m.
Orders(m) ==
    {o \in [1..Cardinality(DOMAIN m) -> DOMAIN m] :
        \A a, b \in 1..Cardinality(DOMAIN m) : o[a] = o[b] => a = b}

\* The callbacks Transform is called with: one that never fails and, for
\* each key, one that fails on it.
Callbacks == {{}} \cup {{k} : k \in Keys}

Transform(order, fails) ==
    LET r == transform(values, order, fails)
    IN  /\ r.err \in {NoErr, "error key"}
        /\ values' = values
        /\ keys' = keys
        /\ indices' = indices
        /\ UNCHANGED <<interval, strict, mtx, pc, local, iter, result, expired, slice>>

Foreach(order) ==
    LET calls == foreach(values, order)
    IN  /\ Len(calls) = Len(order)
        /\ values' = values
        /\ keys' = keys
        /\ indices' = indices
        /\ UNCHANGED <<interval, strict, mtx, pc, local, iter, result, expired, slice>>

Next ==
    \/ \E key \in Keys, idxs \in Args : Insert(key, ValueOf(key), idxs)
    \/ \E key \in Keys : DeleteByKey(key)
    \/ \E index \in Indices : DeleteByIndex(index)
    \/ \E a \in AddArgs(Keys, Indices) : AddIndex(a[1], a[2])
    \/ \E key \in Keys, index \in Indices : RemoveIndex(key, index)
    \/ \E order \in Orders(values), fails \in Callbacks : Transform(order, fails)
    \/ \E order \in Orders(values) : Foreach(order)

Spec == Init /\ [][Next]_vars

----------------------------------------------------------------------------
(* The methods step by step, called by several goroutines *)

\* What the goroutines of this part call the store with.
LockKeys == {"key1", "key2"}
LockIndices == {"index1"}
LockArgs == {<<>>} \cup {<<i>> : i \in LockIndices}

\* key1 is inserted with the plain value of the tests, key2 with a value that
\* has the method IsExpired and says that it is not expired, as the value
\* of the test is when it is inserted.
LockVals(key) == IF key = "key1" THEN {ValueOf(key)} ELSE {"expirable"}

\* The intervals NewExpirableEMap is called with: 100 as in the tests, none
\* and a negative one.
Intervals == {0 - 100, 0, 100}

\* NewExpirableEMap(itv): three empty maps; the interval is kept and collect
\* is started only when the interval is above 0, so that a store made with
\* another interval is what NewGenericEMap makes.
NewExpirableEMap(itv) ==
    [values |-> EmptyMap, keys |-> EmptyMap, indices |-> EmptyMap,
     interval |-> IF itv > 0 THEN itv ELSE 0]

\* NewExpirableEMap(itv): collect runs only with an interval above 0, and
\* waits for its ticker.
LockInit ==
    /\ \E itv \in Intervals :
           /\ values = NewExpirableEMap(itv).values
           /\ keys = NewExpirableEMap(itv).keys
           /\ indices = NewExpirableEMap(itv).indices
           /\ interval = NewExpirableEMap(itv).interval
    /\ strict = NoStrict
    /\ mtx = FreeMtx
    /\ pc = [p \in Procs |-> "idle"]
    /\ local = [p \in Procs |-> Nil]
    /\ iter = [p \in Procs |-> NoIter]
    /\ result = NoResult
    /\ expired = {}
    /\ slice = NoShared

\* A goroutine calls Insert, DeleteByKey, DeleteByIndex, AddIndex or
\* RemoveIndex: the method starts with m.mtx.Lock().
StartWrite(p) ==
    /\ pc[p] = "idle"
    /\ pc' = [pc EXCEPT ![p] = "Lock"]
    /\ UNCHANGED <<values, keys, indices, interval, strict, mtx, local, iter, result, expired, slice>>

\* A goroutine calls one of the reading methods: it starts with
\* m.mtx.RLock().
StartRead(p) ==
    /\ pc[p] = "idle"
    /\ pc' = [pc EXCEPT ![p] = "RLock"]
    /\ UNCHANGED <<values, keys, indices, interval, strict, mtx, local, iter, result, expired, slice>>

\* collect started whatever the interval.
TickAnyway ==
    /\ pc[Collector] = "idle"
    /\ pc' = [pc EXCEPT ![Collector] = "Lock"]
    /\ UNCHANGED <<values, keys, indices, interval, strict, mtx, local, iter, result, expired, slice>>

\* case <-ticker.C of collect, which then calls m.mtx.Lock().
Tick ==
    /\ interval > 0
    /\ pc[Collector] = "idle"
    /\ pc' = [pc EXCEPT ![Collector] = "Lock"]
    /\ UNCHANGED <<values, keys, indices, interval, strict, mtx, local, iter, result, expired, slice>>

\* `value.expired = true` of the test: between two calls a goroutine sets the
\* flag of a value it has stored, which from then on says that it is expired.
\* The store is not asked and no lock is taken.
Expire(p, key) ==
    /\ pc[p] = "idle"
    /\ key \in DOMAIN values
    /\ values[key] = "expirable"
    /\ values' = Put(values, key, "expired")
    /\ UNCHANGED <<keys, indices, interval, strict, mtx, pc, local, iter, result, expired, slice>>

\* Lock, first half: no other Lock is announced or held; from here on no
\* new RLock gets in.
LockPending(p) ==
    /\ pc[p] = "Lock"
    /\ mtx.w = "free"
    /\ mtx' = [mtx EXCEPT !.w = "pending"]
    /\ pc' = [pc EXCEPT ![p] = "LockWait"]
    /\ UNCHANGED <<values, keys, indices, interval, strict, local, iter, result, expired, slice>>

\* Lock, second half, of a lock that does not count the RLock that the
\* goroutine asking for the Lock holds itself.
LockHeldReentrant(p) ==
    /\ pc[p] = "LockWait"
    /\ mtx.r = (IF iter[p].method # "" THEN 1 ELSE 0)
    /\ mtx' = [mtx EXCEPT !.w = "held"]
    /\ pc' = [pc EXCEPT ![p] = IF p = Collector THEN "collect" ELSE "write"]
    /\ UNCHANGED <<values, keys, indices, interval, strict, local, iter, result, expired, slice>>

\* Lock, second half: the readers that were in have left.
LockHeld(p) ==
    /\ pc[p] = "LockWait"
    /\ mtx.r = 0
    /\ mtx' = [mtx EXCEPT !.w = "held"]
    /\ pc' = [pc EXCEPT ![p] = IF p = Collector THEN "collect" ELSE "write"]
    /\ UNCHANGED <<values, keys, indices, interval, strict, local, iter, result, expired, slice>>

\* RLock that does not wait for a Lock that is announced or held.
RLockHeldAnyway(p) ==
    /\ pc[p] = "RLock"
    /\ mtx' = [mtx EXCEPT !.r = @ + 1]
    /\ pc' = [pc EXCEPT ![p] = "read"]
    /\ UNCHANGED <<values, keys, indices, interval, strict, local, iter, result, expired, slice>>

\* RLock: gets in unless a Lock is announced or held.
RLockHeld(p) ==
    /\ pc[p] = "RLock"
    /\ mtx.w = "free"
    /\ mtx' = [mtx EXCEPT !.r = @ + 1]
    /\ pc' = [pc EXCEPT ![p] = "read"]
    /\ UNCHANGED <<values, keys, indices, interval, strict, local, iter, result, expired, slice>>

\* GenericEMap.Insert under the lock, up to the two writes of insert that
\* store the key: a value refused by the check of the interval and a key
\* that is stored go straight to the return.
InsertBegin(p, key, value, idxs) ==
    /\ pc[p] = "write"
    /\ IF interval > 0 /\ ~hasIsExpired(value)
       THEN /\ local' = [local EXCEPT ![p] = "value type wrong"]
            /\ pc' = [pc EXCEPT ![p] = "Unlock"]
            /\ UNCHANGED <<values, keys>>
       ELSE IF key \in DOMAIN keys
       THEN /\ local' = [local EXCEPT ![p] = "key duplicte"]
            /\ pc' = [pc EXCEPT ![p] = "Unlock"]
            /\ UNCHANGED <<values, keys>>
       ELSE /\ keys' = Put(keys, key, idxs)
            /\ values' = Put(values, key, value)
            /\ local' = [local EXCEPT ![p] = key]
            /\ pc' = [pc EXCEPT ![p] = "insert"]
    /\ UNCHANGED <<indices, interval, strict, mtx, iter, result, expired, slice>>

\* The rest of insert: the loop that puts the key under its indices.
InsertEnd(p) ==
    /\ pc[p] = "insert"
    /\ indices' = insertLoop(indices, local[p], keys[local[p]], 1)
    /\ local' = [local EXCEPT ![p] = NoErr]
    /\ pc' = [pc EXCEPT ![p] = "Unlock"]
    /\ UNCHANGED <<values, keys, interval, strict, mtx, iter, result, expired, slice>>

DeleteByKeyBody(p, key) ==
    LET r == deleteByKey(Mem(keys, indices), values, keys, indices, key)
    IN  /\ pc[p] = "write"
        /\ values' = r.values
        /\ keys' = r.keys
        /\ indices' = r.indices
        /\ local' = [local EXCEPT ![p] = r.err]
        /\ pc' = [pc EXCEPT ![p] = "Unlock"]
        /\ slice' = Shared(r.mem)
        /\ UNCHANGED <<interval, strict, mtx, iter, result, expired>>

DeleteByIndexBody(p, index) ==
    LET r == deleteByIndex(Mem(keys, indices), values, keys, indices, index)
    IN  /\ pc[p] = "write"
        /\ values' = r.values
        /\ keys' = r.keys
        /\ indices' = r.indices
        /\ local' = [local EXCEPT ![p] = r.err]
        /\ pc' = [pc EXCEPT ![p] = "Unlock"]
        /\ slice' = Shared(r.mem)
        /\ UNCHANGED <<interval, strict, mtx, iter, result, expired>>

AddIndexBody(p, key, index) ==
    LET r == addIndex(Mem(keys, indices), keys, indices, key, index)
    IN  /\ pc[p] = "write"
        /\ keys' = r.keys
        /\ indices' = r.indices
        /\ local' = [local EXCEPT ![p] = r.err]
        /\ pc' = [pc EXCEPT ![p] = "Unlock"]
        /\ slice' = Shared(r.mem)
        /\ UNCHANGED <<values, interval, strict, mtx, iter, result, expired>>

RemoveIndexBody(p, key, index) ==
    LET r == removeIndex(Mem(keys, indices), keys, indices, key, index)
    IN  /\ pc[p] = "write"
        /\ keys' = r.keys
        /\ indices' = r.indices
        /\ local' = [local EXCEPT ![p] = r.err]
        /\ pc' = [pc EXCEPT ![p] = "Unlock"]
        /\ slice' = Shared(r.mem)
        /\ UNCHANGED <<values, interval, strict, mtx, iter, result, expired>>

\* The steps of a method between Lock and Unlock.
WriteBody(p) ==
    \/ \E key \in LockKeys, idxs \in LockArgs : \E value \in LockVals(key) :
           InsertBegin(p, key, value, idxs)
    \/ InsertEnd(p)
    \/ \E key \in LockKeys : DeleteByKeyBody(p, key)
    \/ \E index \in LockIndices : DeleteByIndexBody(p, index)
    \/ \E key \in LockKeys, index \in LockIndices : AddIndexBody(p, key, index)
    \/ \E key \in LockKeys, index \in LockIndices : RemoveIndexBody(p, key, index)

FetchByKeyBody(p, key) ==
    /\ pc[p] = "read"
    /\ local' = [local EXCEPT ![p] = fetchByKey(values, key).err]
    /\ pc' = [pc EXCEPT ![p] = "RUnlock"]
    /\ UNCHANGED <<values, keys, indices, interval, strict, mtx, iter, result, expired, slice>>

FetchByIndexBody(p, index) ==
    /\ pc[p] = "read"
    /\ local' = [local EXCEPT ![p] = fetchByIndex(values, indices, index).err]
    /\ pc' = [pc EXCEPT ![p] = "RUnlock"]
    /\ UNCHANGED <<values, keys, indices, interval, strict, mtx, iter, result, expired, slice>>

\* The step of a method between RLock and RUnlock.
ReadBody(p) ==
    \/ \E key \in LockKeys : FetchByKeyBody(p, key)
    \/ \E index \in LockIndices : FetchByIndexBody(p, index)

\* The body of the loop with the test of IsExpired turned round.
collectBodyInverted(mem, valueStore, keyStore, indexStore, key) ==
    IF ~IsExpired(valueStore[key])
    THEN LET r == deleteByKey(mem, valueStore, keyStore, indexStore, key)
         IN  [mem |-> r.mem, values |-> r.values, keys |-> r.keys, indices |-> r.indices]
    ELSE [mem |-> mem, values |-> valueStore, keys |-> keyStore, indices |-> indexStore]

\* The body of the loop without the test of IsExpired.
collectBodyEveryKey(mem, valueStore, keyStore, indexStore, key) ==
    LET r == deleteByKey(mem, valueStore, keyStore, indexStore, key)
    IN  [mem |-> r.mem, values |-> r.values, keys |-> r.keys, indices |-> r.indices]

\* The body of the loop of collect for one key: the value is asked whether
\* it is expired, now, and deleteByKey is called if it says so.
collectBody(mem, valueStore, keyStore, indexStore, key) ==
    IF IsExpired(valueStore[key])
    THEN LET r == deleteByKey(mem, valueStore, keyStore, indexStore, key)
         IN  [mem |-> r.mem, values |-> r.values, keys |-> r.keys, indices |-> r.indices]
    ELSE [mem |-> mem, values |-> valueStore, keys |-> keyStore, indices |-> indexStore]

\* The loop of collect over m.values, in the order the iteration takes, when
\* no value changes what it says while the loop runs.
RECURSIVE collectLoop(_, _, _, _, _, _)
collectLoop(mem, valueStore, keyStore, indexStore, order, j) ==
    IF j > Len(order)
    THEN [mem |-> mem, values |-> valueStore, keys |-> keyStore, indices |-> indexStore]
    ELSE LET r == collectBody(mem, valueStore, keyStore, indexStore, order[j])
         IN  collectLoop(MemAfter(r), r.values, r.keys, r.indices, order, j + 1)

\* collect holds the lock and starts `for key, value := range m.values`, in
\* the order that this run takes.
CollectRange(order) ==
    /\ pc[Collector] = "collect"
    /\ iter' = [iter EXCEPT ![Collector] = [method |-> "collect", todo |-> order]]
    /\ pc' = [pc EXCEPT ![Collector] = "range"]
    /\ UNCHANGED <<values, keys, indices, interval, strict, mtx, local, result, expired, slice>>

\* One round of the loop of collect.  The lock keeps the methods of the
\* store out, and not the goroutine that sets the field of a value: what a
\* value says is read when its round comes.
CollectRound ==
    LET r == collectBody(Mem(keys, indices), values, keys, indices,
                         Head(iter[Collector].todo))
    IN  /\ pc[Collector] = "range"
        /\ iter[Collector].todo # <<>>
        /\ values' = r.values
        /\ keys' = r.keys
        /\ indices' = r.indices
        /\ iter' = [iter EXCEPT ![Collector].todo = Tail(@)]
        /\ slice' = Shared(r.mem)
        /\ UNCHANGED <<interval, strict, mtx, pc, local, result, expired>>

\* The loop of collect has gone through m.values.
CollectDone ==
    /\ pc[Collector] = "range"
    /\ iter[Collector].todo = <<>>
    /\ iter' = [iter EXCEPT ![Collector] = NoIter]
    /\ pc' = [pc EXCEPT ![Collector] = "Unlock"]
    /\ UNCHANGED <<values, keys, indices, interval, strict, mtx, local, result, expired, slice>>

\* Unlock that a method returning an error leaves out.
UnlockUnlessError(p) ==
    /\ pc[p] = "Unlock"
    /\ mtx' = IF local[p] \in {Nil, NoErr} THEN [mtx EXCEPT !.w = "free"] ELSE mtx
    /\ pc' = [pc EXCEPT ![p] = "idle"]
    /\ local' = [local EXCEPT ![p] = Nil]
    /\ UNCHANGED <<values, keys, indices, interval, strict, iter, result, expired, slice>>

\* The deferred m.mtx.Unlock() and the return; m.mtx.Unlock() of collect.
Unlock(p) ==
    /\ pc[p] = "Unlock"
    /\ mtx' = [mtx EXCEPT !.w = "free"]
    /\ pc' = [pc EXCEPT ![p] = "idle"]
    /\ local' = [local EXCEPT ![p] = Nil]
    /\ UNCHANGED <<values, keys, indices, interval, strict, iter, result, expired, slice>>

\* The deferred m.mtx.RUnlock() and the return.
RUnlock(p) ==
    /\ pc[p] = "RUnlock"
    /\ mtx' = [mtx EXCEPT !.r = @ - 1]
    /\ pc' = [pc EXCEPT ![p] = "idle"]
    /\ local' = [local EXCEPT ![p] = Nil]
    /\ UNCHANGED <<values, keys, indices, interval, strict, iter, result, expired, slice>>

\* The goroutine of collect, from a tick of its ticker to its Unlock.
Collect ==
    \/ Tick
    \/ LockPending(Collector)
    \/ LockHeld(Collector)
    \/ \E order \in Orders(values) : CollectRange(order)
    \/ CollectRound
    \/ CollectDone
    \/ Unlock(Collector)

LockNext ==
    \/ \E p \in Callers : StartWrite(p)
    \/ \E p \in Callers : StartRead(p)
    \/ Tick
    \/ \E p \in Callers, key \in LockKeys : Expire(p, key)
    \/ \E p \in Procs : LockPending(p)
    \/ \E p \in Procs : LockHeld(p)
    \/ \E p \in Callers : RLockHeld(p)
    \/ \E p \in Callers : WriteBody(p)
    \/ \E p \in Callers : ReadBody(p)
    \/ \E order \in Orders(values) : CollectRange(order)
    \/ CollectRound
    \/ CollectDone
    \/ \E p \in Procs : Unlock(p)
    \/ \E p \in Callers : RUnlock(p)

LockSpec == LockInit /\ [][LockNext]_vars

\* The steps of goroutine p inside a method, from the Lock or RLock it
\* waits for to the return.
Run(p) ==
    \/ LockPending(p)
    \/ LockHeld(p)
    \/ RLockHeld(p)
    \/ WriteBody(p)
    \/ ReadBody(p)
    \/ (p = Collector /\ \E order \in Orders(values) : CollectRange(order))
    \/ (p = Collector /\ CollectRound)
    \/ (p = Collector /\ CollectDone)
    \/ Unlock(p)
    \/ RUnlock(p)

\* The scheduler runs every goroutine that can take a step, and the mutex
\* hands the lock to a goroutine that keeps asking for it.
FairLockSpec ==
    /\ LockInit
    /\ [][LockNext]_vars
    /\ \A p \in Procs : SF_vars(Run(p))

\* The ticker of collect keeps firing as well: whenever collect waits for it,
\* the next tick comes.
FairTickSpec ==
    /\ LockInit
    /\ [][LockNext]_vars
    /\ \A p \in Procs : SF_vars(Run(p))
    /\ WF_vars(Tick)

----------------------------------------------------------------------------
(* Foreach and Transform with a callback that calls the store *)

\* The two methods that call a callback under the shared lock.
Iterations == {"Foreach", "Transform"}

\* After its RLock, GenericEMap.Foreach or GenericEMap.Transform starts the
\* `for range` of foreach or transform over m.values, in the order that this
\* run takes.
IterateBegin(p, method, order) ==
    /\ pc[p] = "read"
    /\ iter' = [iter EXCEPT ![p] = [method |-> method, todo |-> order]]
    /\ pc' = [pc EXCEPT ![p] = "iterate"]
    /\ UNCHANGED <<values, keys, indices, interval, strict, mtx, local, result, expired, slice>>

\* The callback is called with the next pair and returns (with a nil error
\* in a Transform) without having called the store.
CallbackReturns(p) ==
    /\ pc[p] = "iterate"
    /\ iter[p].todo # <<>>
    /\ iter' = [iter EXCEPT ![p].todo = Tail(@)]
    /\ UNCHANGED <<values, keys, indices, interval, strict, mtx, pc, local, result, expired, slice>>

\* The callback of a Transform returns an error: transform leaves its loop
\* and returns the error.
CallbackFails(p) ==
    /\ pc[p] = "iterate"
    /\ iter[p].method = "Transform"
    /\ iter[p].todo # <<>>
    /\ iter' = [iter EXCEPT ![p].todo = <<>>]
    /\ local' = [local EXCEPT ![p] = callback({Head(iter[p].todo)}, Head(iter[p].todo),
                                              values[Head(iter[p].todo)]).err]
    /\ UNCHANGED <<values, keys, indices, interval, strict, mtx, pc, result, expired, slice>>

\* The callback calls Insert, DeleteByKey, DeleteByIndex, AddIndex or
\* RemoveIndex of the store it is called by: the method starts with
\* m.mtx.Lock(), in the goroutine that holds the RLock of the iteration.
CallbackWrites(p) ==
    /\ pc[p] = "iterate"
    /\ iter[p].todo # <<>>
    /\ pc' = [pc EXCEPT ![p] = "Lock"]
    /\ UNCHANGED <<values, keys, indices, interval, strict, mtx, local, iter, result, expired, slice>>

\* The callback calls HasKey of the store it is called by: the method starts
\* with m.mtx.RLock().
CallbackReads(p) ==
    /\ pc[p] = "iterate"
    /\ iter[p].todo # <<>>
    /\ pc' = [pc EXCEPT ![p] = "cbRLock"]
    /\ UNCHANGED <<values, keys, indices, interval, strict, mtx, local, iter, result, expired, slice>>

\* The RLock of the callback's call that does not wait for a Lock that is
\* announced.
CallbackRLockHeldAnyway(p) ==
    /\ pc[p] = "cbRLock"
    /\ mtx.w # "held"
    /\ mtx' = [mtx EXCEPT !.r = @ + 1]
    /\ pc' = [pc EXCEPT ![p] = "cbRead"]
    /\ UNCHANGED <<values, keys, indices, interval, strict, local, iter, result, expired, slice>>

\* The RLock of the callback's call: like every RLock it gets in unless a
\* Lock is announced or held.
CallbackRLockHeld(p) ==
    /\ pc[p] = "cbRLock"
    /\ mtx.w = "free"
    /\ mtx' = [mtx EXCEPT !.r = @ + 1]
    /\ pc' = [pc EXCEPT ![p] = "cbRead"]
    /\ UNCHANGED <<values, keys, indices, interval, strict, local, iter, result, expired, slice>>

\* HasKey between its RLock and its RUnlock, called by the callback with the
\* key it was handed.
CallbackHasKeyBody(p) ==
    /\ pc[p] = "cbRead"
    /\ local' = [local EXCEPT ![p] =
                    IF Head(iter[p].todo) \in DOMAIN keys THEN "true" ELSE "false"]
    /\ pc' = [pc EXCEPT ![p] = "cbRUnlock"]
    /\ UNCHANGED <<values, keys, indices, interval, strict, mtx, iter, result, expired, slice>>

\* The deferred RUnlock of the callback's HasKey and the return of the
\* callback: the loop goes on.
CallbackRUnlock(p) ==
    /\ pc[p] = "cbRUnlock"
    /\ mtx' = [mtx EXCEPT !.r = @ - 1]
    /\ pc' = [pc EXCEPT ![p] = "iterate"]
    /\ local' = [local EXCEPT ![p] = Nil]
    /\ iter' = [iter EXCEPT ![p].todo = Tail(@)]
    /\ UNCHANGED <<values, keys, indices, interval, strict, result, expired, slice>>

\* The loop is over: foreach or transform returns, and the deferred RUnlock
\* of the method is next.
IterateEnd(p) ==
    /\ pc[p] = "iterate"
    /\ iter[p].todo = <<>>
    /\ iter' = [iter EXCEPT ![p] = NoIter]
    /\ pc' = [pc EXCEPT ![p] = "RUnlock"]
    /\ UNCHANGED <<values, keys, indices, interval, strict, mtx, local, result, expired, slice>>

\* The goroutines call the store as before, and Foreach and Transform with
\* callbacks that call it in their turn.
CallbackNext ==
    \/ LockNext
    \/ \E p \in Callers, method \in Iterations, order \in Orders(values) :
           IterateBegin(p, method, order)
    \/ \E p \in Callers : CallbackReturns(p)
    \/ \E p \in Callers : CallbackFails(p)
    \/ \E p \in Callers : CallbackWrites(p)
    \/ \E p \in Callers : CallbackReads(p)
    \/ \E p \in Callers : CallbackRLockHeld(p)
    \/ \E p \in Callers : CallbackHasKeyBody(p)
    \/ \E p \in Callers : CallbackRUnlock(p)
    \/ \E p \in Callers : IterateEnd(p)

CallbackSpec == LockInit /\ [][CallbackNext]_vars

----------------------------------------------------------------------------
(* The store of NewExpirableEMap(100), every call one step *)

\* The keys this part stores; their indices are those of Indices.
ExpKeys == {"key1", "key2"}

ExpInit ==
    /\ values = NewExpirableEMap(100).values
    /\ keys = NewExpirableEMap(100).keys
    /\ indices = NewExpirableEMap(100).indices
    /\ interval = NewExpirableEMap(100).interval
    /\ strict = NoStrict
    /\ mtx = FreeMtx
    /\ pc = [p \in Procs |-> "idle"]
    /\ local = [p \in Procs |-> Nil]
    /\ iter = [p \in Procs |-> NoIter]
    /\ result = NoResult
    /\ expired = {}
    /\ slice = NoShared

\* A method of the store from its Lock or RLock to its return can be taken
\* as one step when no Lock is announced or held and no RLock is held.
NoLock == mtx = FreeMtx

\* The values are inserted as the test inserts its expirebleStruct, saying
\* that they are not expired, and are flipped afterwards.
ExpNext ==
    \/ /\ NoLock
       /\ \/ \E key \in ExpKeys, idxs \in Args : Insert(key, "expirable", idxs)
          \/ \E key \in ExpKeys : DeleteByKey(key)
          \/ \E index \in Indices : DeleteByIndex(index)
          \/ \E a \in AddArgs(ExpKeys, Indices) : AddIndex(a[1], a[2])
          \/ \E key \in ExpKeys, index \in Indices : RemoveIndex(key, index)
    \/ \E p \in Callers, key \in ExpKeys : Expire(p, key)
    \/ Collect

ExpSpec == ExpInit /\ [][ExpNext]_vars

----------------------------------------------------------------------------
(* A caller that passes its slice of indices: Insert(key, value, s...) *)

\* The keys of this part, and the slices `s := []interface{}{...}` that the
\* caller makes before its first call, as long as its array, with the
\* indices of the calls.
SliceKeys == {"key1", "key2"}
SliceArrays == {<<"index1", "index2">>}
SliceIndices == {"index1", "index2"}

\* The store of this part holds at most SliceMaxPairs (key, index) entries
\* in each direction.
SliceMaxPairs == 4

SliceRoom ==
    LET k == SumLen(keys, DOMAIN keys)
        i == SumLen(indices, DOMAIN indices)
    IN  SliceMaxPairs - (IF k > i THEN k ELSE i)

\* NewGenericEMap(), and a caller that has made its slice.
SliceInit ==
    /\ values = EmptyMap
    /\ keys = EmptyMap
    /\ indices = EmptyMap
    /\ interval = 0
    /\ strict = NoStrict
    /\ mtx = FreeMtx
    /\ pc = [p \in Procs |-> "idle"]
    /\ local = [p \in Procs |-> Nil]
    /\ iter = [p \in Procs |-> NoIter]
    /\ result = NoResult
    /\ expired = {}
    /\ \E arr \in SliceArrays : slice = [arr |-> arr, keys |-> {}]

\* Insert(key, value, s...): Go hands the caller's slice itself to the
\* variadic parameter, GenericEMap.Insert hands it on with `indices...`, and
\* insert keeps it.  The indices are what is in the array at the call.
InsertSlice(key, value) ==
    LET r == GenericEMapInsert(interval, MemOfSlice(keys, indices), values, keys, indices,
                               key, value, slice.arr)
    IN  /\ values' = r.values
        /\ keys' = r.keys
        /\ indices' = r.indices
        /\ slice' = Shared(r.mem)
        /\ UNCHANGED <<interval, strict, mtx, pc, local, iter, result, expired>>

\* The keys that Insert is called with while the store has room for the
\* slice, and then those for which the call returns its error.
SliceInsertArgs ==
    {k \in SliceKeys : SliceRoom >= Len(slice.arr) \/ k \in DOMAIN keys}

\* The (key, index) pairs that AddIndex is called with, as in AddArgs.
SliceAddArgs ==
    {a \in SliceKeys \X SliceIndices :
        SliceRoom >= 1 \/ addIndex(Mem(keys, indices), keys, indices, a[1], a[2]).err # NoErr}

SliceNext ==
    \/ \E key \in SliceInsertArgs : InsertSlice(key, ValueOf(key))
    \/ \E key \in SliceKeys : DeleteByKey(key)
    \/ \E index \in SliceIndices : DeleteByIndex(index)
    \/ \E a \in SliceAddArgs : AddIndex(a[1], a[2])
    \/ \E key \in SliceKeys, index \in SliceIndices : RemoveIndex(key, index)

SliceSpec == SliceInit /\ [][SliceNext]_vars

----------------------------------------------------------------------------
(* The results that a caller keeps *)

\* transform that returns the map it was handed and not the one it made.
transformResultHanded(valueStore, order, fails) ==
    LET r == transform(valueStore, order, fails)
    IN  IF r.err # NoErr THEN NoResult
        ELSE [method |-> "Transform", ref |-> "m.values", slice |-> <<>>, map |-> EmptyMap]

\* What transform returns: nil with the error of the callback, and otherwise
\* targets, the map it made with make(map[interface{}]interface{}, ...) and
\* filled.
transformResult(valueStore, order, fails) ==
    LET r == transform(valueStore, order, fails)
    IN  IF r.err # NoErr THEN NoResult
        ELSE [method |-> "Transform", ref |-> "made", slice |-> <<>>, map |-> r.targets]

\* What fetchByIndex returns: nil with its error, and otherwise values, the
\* slice it made with make([]interface{}, len(keys)) and filled.
fetchByIndexResult(valueStore, indexStore, index) ==
    LET r == fetchByIndex(valueStore, indexStore, index)
    IN  IF r.err # NoErr THEN NoResult
        ELSE [method |-> "FetchByIndex", ref |-> "made", slice |-> r.values,
              map |-> EmptyMap]

\* What the caller finds in the result it holds: what is in the object that
\* the reference points to, now.  The elements are the interface values as
\* the store has them, the pointers of Structs: the caller and the store see
\* the same struct through them.
Held == IF result.ref = "m.values" THEN [result EXCEPT !.map = values] ELSE result

\* FetchByIndex returns and the caller keeps the result.
FetchByIndexReturns(index) ==
    /\ result' = fetchByIndexResult(values, indices, index)
    /\ UNCHANGED <<values, keys, indices, interval, strict, mtx, pc, local, iter, expired, slice>>

\* Transform returns and the caller keeps the result.
TransformReturns(order, fails) ==
    /\ result' = transformResult(values, order, fails)
    /\ UNCHANGED <<values, keys, indices, interval, strict, mtx, pc, local, iter, expired, slice>>

\* The caller assigns to an element of the slice it holds.
ChangeSlice(j) ==
    /\ result.method = "FetchByIndex"
    /\ j \in 1..Len(result.slice)
    /\ result' = [result EXCEPT !.slice[j] = "changed"]
    /\ UNCHANGED <<values, keys, indices, interval, strict, mtx, pc, local, iter, expired, slice>>

\* The caller deletes a key of the map it holds: the delete goes to the
\* object that the reference points to.
ChangeMap(key) ==
    /\ result.method = "Transform"
    /\ key \in DOMAIN Held.map
    /\ IF result.ref = "m.values"
       THEN values' = Del(values, key) /\ UNCHANGED result
       ELSE result' = [result EXCEPT !.map = Del(@, key)] /\ UNCHANGED values
    /\ UNCHANGED <<keys, indices, interval, strict, mtx, pc, local, iter, expired, slice>>

\* `value.expired = true` of the test: a caller sets the field of a struct
\* it made.  Whoever holds the pointer, the store or a result, finds the
\* struct expired from then on.
SetExpired(s) ==
    /\ s \notin expired
    /\ expired' = expired \cup {s}
    /\ UNCHANGED <<values, keys, indices, interval, strict, mtx, pc, local, iter, result, slice>>

\* A call that changes the store, or a round of the loop of collect.  The
\* values that are inserted are the pointers to the structs of the callers.
StoreStep ==
    \/ /\ NoLock
       /\ \/ \E key \in LockKeys, s \in Structs, idxs \in LockArgs : Insert(key, s, idxs)
          \/ \E key \in LockKeys : DeleteByKey(key)
          \/ \E index \in LockIndices : DeleteByIndex(index)
          \/ \E a \in AddArgs(LockKeys, LockIndices) : AddIndex(a[1], a[2])
          \/ \E key \in LockKeys, index \in LockIndices : RemoveIndex(key, index)
    \/ CollectRound

\* A caller changes the result it holds.
ResultStep ==
    \/ \E j \in 1..Cardinality(LockKeys) : ChangeSlice(j)
    \/ \E key \in LockKeys : ChangeMap(key)

\* The calls on the store of NewExpirableEMap(100), every call one step, with
\* a caller that keeps what FetchByIndex and Transform return and sets the
\* fields of its structs when it likes, also while collect is in its loop.
ResultNext ==
    \/ StoreStep
    \/ Collect
    \/ \E s \in Structs : SetExpired(s)
    \/ /\ NoLock
       /\ \/ \E index \in LockIndices : FetchByIndexReturns(index)
          \/ \E order \in Orders(values), fails \in Callbacks :
                 TransformReturns(order, fails)
    \/ ResultStep

ResultSpec == ExpInit /\ [][ResultNext]_vars

----------------------------------------------------------------------------
(* The type-checked store *)

\* A Go value as reflect sees it: the kind and the name of its type, next to
\* the value itself.
Go(kind, name, v) == [kind |-> kind, name |-> name, v |-> v]

\* reflect.TypeOf(x).Kind()
Kind(x) == x.kind

\* reflect.ValueOf(x).Type().Name()
TypeName(x) == x.name

\* The kinds of package reflect, but for Invalid.
Kinds ==
    {"bool", "int", "int8", "int16", "int32", "int64", "uint", "uint8", "uint16",
     "uint32", "uint64", "uintptr", "float32", "float64", "complex64", "complex128",
     "array", "chan", "func", "interface", "map", "ptr", "slice", "string", "struct",
     "unsafe.Pointer"}

\* isTypeSupported that takes a map for a key or an index.
isTypeSupportedMap(kind) ==
    kind \notin {"bool", "uintptr", "array", "chan", "func", "interface", "ptr",
                 "slice", "struct", "unsafe.Pointer"}

isTypeSupported(kind) ==
    kind \notin {"bool", "uintptr", "array", "chan", "func", "interface", "map", "ptr",
                 "slice", "struct", "unsafe.Pointer"}

\* A Go map hashes the key it is asked for: a value whose type has no
\* equality makes the access panic.
Hashable(x) == Kind(x) \notin {"slice", "map", "func"}

Panic == "panic: runtime error: hash of unhashable type"

\* NewStrictEMap(keySample, valueSample, indexSample): the error, or the
\* instance with its three empty maps and the kinds of the samples.
NewStrictEMap(keySample, valueSample, indexSample) ==
    IF ~isTypeSupported(Kind(keySample)) \/ ~isTypeSupported(Kind(indexSample))
    THEN [values |-> EmptyMap, keys |-> EmptyMap, indices |-> EmptyMap,
          keyType |-> "invalid", indexType |-> "invalid", valueType |-> "invalid",
          valueStruct |-> "", err |-> "key or index type not supported"]
    ELSE [values |-> EmptyMap, keys |-> EmptyMap, indices |-> EmptyMap,
          keyType |-> Kind(keySample), indexType |-> Kind(indexSample),
          valueType |-> Kind(valueSample),
          valueStruct |-> IF Kind(valueSample) = "struct" THEN TypeName(valueSample) ELSE "",
          err |-> NoErr]

\* StrictEMap.Insert with the check for a stored key before the checks of
\* the types.
StrictEMapInsertDuplicateFirst(st, mem, valueStore, keyStore, indexStore, key, value, idxs) ==
    LET same == [mem |-> mem, values |-> valueStore, keys |-> keyStore,
                 indices |-> indexStore]
    IN  IF Hashable(key) /\ key \in DOMAIN keyStore
        THEN same @@ [err |-> "key duplicte"]
        ELSE IF st.keyType # Kind(key)
        THEN same @@ [err |-> "key type wrong"]
        ELSE IF \E j \in 1..Len(idxs) : st.indexType # Kind(idxs[j])
        THEN same @@ [err |-> "index type wrong"]
        ELSE IF st.valueType # Kind(value)
        THEN same @@ [err |-> "value type wrong"]
        ELSE IF st.valueType = "struct" /\ st.valueStruct # TypeName(value)
        THEN same @@ [err |-> "struct type wrong"]
        ELSE insert(mem, valueStore, keyStore, indexStore, key, value, idxs)

\* The body of StrictEMap.Insert under the lock: the key, every index and
\* the value are checked against the samples before insert is called.
StrictEMapInsert(st, mem, valueStore, keyStore, indexStore, key, value, idxs) ==
    LET same == [mem |-> mem, values |-> valueStore, keys |-> keyStore,
                 indices |-> indexStore]
    IN  IF st.keyType # Kind(key)
        THEN same @@ [err |-> "key type wrong"]
        ELSE IF \E j \in 1..Len(idxs) : st.indexType # Kind(idxs[j])
        THEN same @@ [err |-> "index type wrong"]
        ELSE IF st.valueType # Kind(value)
        THEN same @@ [err |-> "value type wrong"]
        ELSE IF st.valueType = "struct" /\ st.valueStruct # TypeName(value)
        THEN same @@ [err |-> "struct type wrong"]
        ELSE insert(mem, valueStore, keyStore, indexStore, key, value, idxs)

StrictEMapFetchByKey(st, valueStore, key) ==
    IF st.keyType # Kind(key)
    THEN [value |-> Nil, err |-> "key type wrong"]
    ELSE fetchByKey(valueStore, key)

StrictEMapFetchByIndex(st, valueStore, indexStore, index) ==
    IF st.indexType # Kind(index)
    THEN [values |-> <<>>, err |-> "index type wrong"]
    ELSE fetchByIndex(valueStore, indexStore, index)

\* StrictEMap.DeleteByKey has no check of the key: deleteByKey is called with
\* whatever the key is, and starts with the access keyStore[key].
StrictEMapDeleteByKey(st, mem, valueStore, keyStore, indexStore, key) ==
    IF ~Hashable(key)
    THEN [mem |-> mem, values |-> valueStore, keys |-> keyStore, indices |-> indexStore,
          err |-> Panic]
    ELSE deleteByKey(mem, valueStore, keyStore, indexStore, key)

\* StrictEMap.DeleteByIndex that checks the index against the kind of the
\* key sample.
StrictEMapDeleteByIndexKeyKind(st, mem, valueStore, keyStore, indexStore, index) ==
    IF st.keyType # Kind(index)
    THEN [mem |-> mem, values |-> valueStore, keys |-> keyStore, indices |-> indexStore,
          err |-> "index type wrong"]
    ELSE deleteByIndex(mem, valueStore, keyStore, indexStore, index)

StrictEMapDeleteByIndex(st, mem, valueStore, keyStore, indexStore, index) ==
    IF st.indexType # Kind(index)
    THEN [mem |-> mem, values |-> valueStore, keys |-> keyStore, indices |-> indexStore,
          err |-> "index type wrong"]
    ELSE deleteByIndex(mem, valueStore, keyStore, indexStore, index)

StrictEMapAddIndex(st, mem, keyStore, indexStore, key, index) ==
    IF st.keyType # Kind(key)
    THEN [mem |-> mem, keys |-> keyStore, indices |-> indexStore, err |-> "key type wrong"]
    ELSE IF st.indexType # Kind(index)
    THEN [mem |-> mem, keys |-> keyStore, indices |-> indexStore, err |-> "index type wrong"]
    ELSE addIndex(mem, keyStore, indexStore, key, index)

StrictEMapRemoveIndex(st, mem, keyStore, indexStore, key, index) ==
    IF st.keyType # Kind(key)
    THEN [mem |-> mem, keys |-> keyStore, indices |-> indexStore, err |-> "key type wrong"]
    ELSE IF st.indexType # Kind(index)
    THEN [mem |-> mem, keys |-> keyStore, indices |-> indexStore, err |-> "index type wrong"]
    ELSE removeIndex(mem, keyStore, indexStore, key, index)

\* The accessors of StrictEMap that take an argument.  KeyNumOfIndex has no
\* check of the index and goes to m.indices[index] with whatever it is; its
\* result is the number, or the panic of the access.
StrictEMapKeyNumOfIndex(st, indexStore, index) ==
    IF ~Hashable(index) THEN [num |-> 0, err |-> Panic]
    ELSE IF index \in DOMAIN indexStore
    THEN [num |-> Len(indexStore[index]), err |-> NoErr]
    ELSE [num |-> 0, err |-> NoErr]

StrictEMapIndexNumOfKey(st, keyStore, key) ==
    IF st.keyType # Kind(key) THEN 0
    ELSE IF key \in DOMAIN keyStore THEN Len(keyStore[key])
    ELSE 0

StrictEMapHasKey(st, keyStore, key) ==
    IF st.keyType # Kind(key) THEN FALSE
    ELSE key \in DOMAIN keyStore

StrictEMapHasIndex(st, indexStore, index) ==
    IF st.indexType # Kind(index) THEN FALSE
    ELSE index \in DOMAIN indexStore

\* Type.Name() of a sample of the kind: the types without a name of their
\* own have the empty name, the struct of the samples is testStruct, and
\* unsafe.Pointer, like every name, comes without its package.
TypeNameOf(kind) ==
    IF kind \in {"array", "chan", "func", "map", "ptr", "slice"} THEN ""
    ELSE IF kind = "struct" THEN "testStruct"
    ELSE IF kind = "unsafe.Pointer" THEN "Pointer"
    ELSE kind

\* The samples NewStrictEMap is called with.  Only the type of a sample
\* matters: there is a key sample and an index sample of every kind a value
\* can have, and the value samples are a testStruct, a string and a map.
SampleKinds == Kinds \ {"interface"}
KeySamples == {Go(kind, TypeNameOf(kind), "sample") : kind \in SampleKinds}
IndexSamples == KeySamples
ValueSamples ==
    {Go("struct", "testStruct", "123"), Go("string", "string", "test"), Go("map", "", "")}

\* The arguments the methods are called with, as in the tests: the keys
\* "key", "sample" and 123, the indices 123, 456 and "123", the values
\* testStruct{"123"}, anotherStruct{"123"} and "test".
StrictKeys ==
    {Go("string", "string", "key"), Go("string", "string", "sample"), Go("int", "int", "123")}
StrictIndices ==
    {Go("int", "int", "123"), Go("int", "int", "456"), Go("string", "string", "123")}
StrictVals ==
    {Go("struct", "testStruct", "123"), Go("struct", "anotherStruct", "123"),
     Go("string", "string", "test")}

\* Arguments that no map can hash: []string{"key"} and map[string]string{}.
Unhashables == {Go("slice", "", "key"), Go("map", "", "")}

\* The lists of length 0..n of elements of S.
RECURSIVE Lists(_, _)
Lists(S, n) ==
    IF n = 0 THEN {<<>>}
    ELSE LET shorter == Lists(S, n - 1)
         IN  shorter \cup {Append(s, x) : s \in {t \in shorter : Len(t) = n - 1}, x \in S}

\* The lists of indices a StrictEMap.Insert is called with.
StrictArgs == Lists(StrictIndices, IF Room < MaxIdx THEN Room ELSE MaxIdx)

\* The (key, index) pairs a StrictEMap.AddIndex is called with: all of them
\* while the store has room, and then those for which the call returns an
\* error and adds nothing.
StrictAddArgs ==
    {a \in StrictKeys \X StrictIndices :
        Room >= 1 \/ StrictEMapAddIndex(strict, Mem(keys, indices), keys, indices, a[1], a[2]).err # NoErr}

StrictInit ==
    /\ \E keySample \in KeySamples, valueSample \in ValueSamples, indexSample \in IndexSamples :
           LET r == NewStrictEMap(keySample, valueSample, indexSample)
           IN  /\ values = r.values
               /\ keys = r.keys
               /\ indices = r.indices
               /\ strict = [sample |-> <<keySample, valueSample, indexSample>>,
                            err |-> r.err, keyType |-> r.keyType,
                            indexType |-> r.indexType, valueType |-> r.valueType,
                            valueStruct |-> r.valueStruct]
    /\ interval = 0
    /\ mtx = FreeMtx
    /\ pc = [p \in Procs |-> "idle"]
    /\ local = [p \in Procs |-> Nil]
    /\ iter = [p \in Procs |-> NoIter]
    /\ result = NoResult
    /\ expired = {}
    /\ slice = NoShared

\* The methods of the StrictEMap that NewStrictEMap returned, each as one
\* step from Lock to Unlock.
StrictInsert(key, value, idxs) ==
    LET r == StrictEMapInsert(strict, Mem(keys, indices), values, keys, indices, key, value, idxs)
    IN  /\ strict.err = NoErr
        /\ values' = r.values
        /\ keys' = r.keys
        /\ indices' = r.indices
        /\ slice' = Shared(r.mem)
        /\ UNCHANGED <<interval, strict, mtx, pc, local, iter, result, expired>>

StrictDeleteByKey(key) ==
    LET r == StrictEMapDeleteByKey(strict, Mem(keys, indices), values, keys, indices, key)
    IN  /\ strict.err = NoErr
        /\ values' = r.values
        /\ keys' = r.keys
        /\ indices' = r.indices
        /\ slice' = Shared(r.mem)
        /\ UNCHANGED <<interval, strict, mtx, pc, local, iter, result, expired>>

StrictDeleteByIndex(index) ==
    LET r == StrictEMapDeleteByIndex(strict, Mem(keys, indices), values, keys, indices, index)
    IN  /\ strict.err = NoErr
        /\ values' = r.values
        /\ keys' = r.keys
        /\ indices' = r.indices
        /\ slice' = Shared(r.mem)
        /\ UNCHANGED <<interval, strict, mtx, pc, local, iter, result, expired>>

StrictAddIndex(key, index) ==
    LET r == StrictEMapAddIndex(strict, Mem(keys, indices), keys, indices, key, index)
    IN  /\ strict.err = NoErr
        /\ keys' = r.keys
        /\ indices' = r.indices
        /\ slice' = Shared(r.mem)
        /\ UNCHANGED <<values, interval, strict, mtx, pc, local, iter, result, expired>>

StrictRemoveIndex(key, index) ==
    LET r == StrictEMapRemoveIndex(strict, Mem(keys, indices), keys, indices, key, index)
    IN  /\ strict.err = NoErr
        /\ keys' = r.keys
        /\ indices' = r.indices
        /\ slice' = Shared(r.mem)
        /\ UNCHANGED <<values, interval, strict, mtx, pc, local, iter, result, expired>>

StrictNext ==
    \/ \E key \in StrictKeys, value \in StrictVals, idxs \in StrictArgs :
           StrictInsert(key, value, idxs)
    \/ \E key \in StrictKeys : StrictDeleteByKey(key)
    \/ \E index \in StrictIndices : StrictDeleteByIndex(index)
    \/ \E a \in StrictAddArgs : StrictAddIndex(a[1], a[2])
    \/ \E key \in StrictKeys, index \in StrictIndices : StrictRemoveIndex(key, index)

StrictSpec == StrictInit /\ [][StrictNext]_vars

----------------------------------------------------------------------------
(* The store without lock *)

\* The methods of UnlockEMap: the functions of the engine on the three maps,
\* and the accessors on their own.
UnlockEMapInsert(mem, valueStore, keyStore, indexStore, key, value, idxs) ==
    insert(mem, valueStore, keyStore, indexStore, key, value, idxs)

UnlockEMapFetchByKey(valueStore, key) == fetchByKey(valueStore, key)

UnlockEMapFetchByIndex(valueStore, indexStore, index) ==
    fetchByIndex(valueStore, indexStore, index)

UnlockEMapDeleteByKey(mem, valueStore, keyStore, indexStore, key) ==
    deleteByKey(mem, valueStore, keyStore, indexStore, key)

UnlockEMapDeleteByIndex(mem, valueStore, keyStore, indexStore, index) ==
    deleteByIndex(mem, valueStore, keyStore, indexStore, index)

UnlockEMapAddIndex(mem, keyStore, indexStore, key, index) ==
    addIndex(mem, keyStore, indexStore, key, index)

UnlockEMapRemoveIndex(mem, keyStore, indexStore, key, index) ==
    removeIndex(mem, keyStore, indexStore, key, index)

UnlockEMapKeyNumOfIndex(indexStore, index) ==
    IF index \in DOMAIN indexStore THEN Len(indexStore[index]) ELSE 0

UnlockEMapIndexNumOfKey(keyStore, key) ==
    IF key \in DOMAIN keyStore THEN Len(keyStore[key]) ELSE 0

UnlockEMapHasKey(keyStore, key) == key \in DOMAIN keyStore

UnlockEMapHasIndex(indexStore, index) == index \in DOMAIN indexStore

----------------------------------------------------------------------------
(* Properties *)

\* The number of places of s that hold x.
Count(s, x) == Cardinality({j \in 1..Len(s) : s[j] = x})

\* s without its elements in S.
Without(s, S) == SelectSeq(s, LAMBDA x : x \notin S)

IsPrefix(s, t) == Len(s) <= Len(t) /\ SubSeq(t, 1, Len(s)) = s

\* The slice m[x], empty when m has no entry for x.
ListOf(m, x) == IF x \in DOMAIN m THEN m[x] ELSE <<>>

Distinct(s) == \A j \in 1..Len(s) : Count(s, s[j]) = 1

\* What the calls return on the store as it is.
DeleteByKeyOut(key) == deleteByKey(Mem(keys, indices), values, keys, indices, key)

DeleteByIndexOut(index) == deleteByIndex(Mem(keys, indices), values, keys, indices, index)

RemoveIndexOut(key, index) == removeIndex(Mem(keys, indices), keys, indices, key, index)

AddIndexOut(key, index) == addIndex(Mem(keys, indices), keys, indices, key, index)

InsertOut(key, value, idxs) ==
    GenericEMapInsert(interval, Mem(keys, indices), values, keys, indices, key, value, idxs)

\* C1: after any sequence of calls the two directions agree: every index in
\* a stored key's list has that key exactly once in its key list (I2), and
\* every key in an index's list is stored and has that index exactly once in
\* its index list (I3).
BothDirectionsAgree ==
    /\ \A k \in DOMAIN keys : \A i \in Range(keys[k]) :
           i \in DOMAIN indices /\ Count(indices[i], k) = 1
    /\ \A i \in DOMAIN indices : \A k \in Range(indices[i]) :
           k \in DOMAIN keys /\ Count(keys[k], i) = 1

\* C2: after a successful DeleteByKey(k), whatever the number of indices k
\* carried, k is in neither values nor keys, k is in no index's key list,
\* and every index whose only key was k is gone.
DeleteByKeyRemovesKey ==
    \A key \in DOMAIN keys :
        LET r == DeleteByKeyOut(key)
        IN  /\ r.err = NoErr
            /\ key \notin DOMAIN r.values
            /\ key \notin DOMAIN r.keys
            /\ \A i \in DOMAIN r.indices : key \notin Range(r.indices[i])
            /\ \A i \in DOMAIN indices :
                   Range(indices[i]) = {key} =>
                       /\ i \notin DOMAIN r.indices
                       /\ fetchByIndex(r.values, r.indices, i).err # NoErr

\* C3: after a successful DeleteByIndex(ix), whatever the number of keys
\* under ix, every key that was under ix is gone from the store and ix is
\* no index of the store any more.
DeleteByIndexRemovesKeys ==
    \A index \in DOMAIN indices :
        LET r == DeleteByIndexOut(index)
        IN  /\ r.err = NoErr
            /\ \A k \in Range(indices[index]) :
                   /\ k \notin DOMAIN r.keys
                   /\ fetchByKey(r.values, k).err # NoErr
            /\ index \notin DOMAIN r.indices

\* C4: values and keys have the same key set in every reachable state:
\* HasKey(k) is true exactly when FetchByKey(k) succeeds.
SameKeySets ==
    /\ DOMAIN values = DOMAIN keys
    /\ \A k \in Keys : HasKey(k) <=> (FetchByKey(k).err = NoErr)

\* C4 witness: one key is stored and fetchable while another one, still
\* listed under an index, has been deleted and is neither.
SameKeySetsWitness ==
    \E k \in Keys, gone \in Keys, i \in DOMAIN indices :
        /\ HasKey(k) /\ FetchByKey(k).err = NoErr
        /\ gone \in Range(indices[i])
        /\ ~HasKey(gone) /\ FetchByKey(gone).err # NoErr

\* C5: every key listed under an index is stored: FetchByIndex(i) returns
\* exactly the stored values of the keys carrying i, and KeyNumOfIndex(i) is
\* the number of stored keys carrying i.
KeysUnderIndexAreStored ==
    \A i \in DOMAIN indices :
        /\ \A k \in Range(indices[i]) : k \in DOMAIN values /\ k \in DOMAIN keys
        /\ FetchByIndex(i).err = NoErr
        /\ Len(FetchByIndex(i).values) = Len(indices[i])
        /\ \A j \in 1..Len(indices[i]) :
               /\ indices[i][j] \in DOMAIN values
               /\ FetchByIndex(i).values[j] = values[indices[i][j]]
        /\ KeyNumOfIndex(i) = Cardinality({k \in DOMAIN keys : i \in Range(keys[k])})

\* C6: no index has an entry with an empty key list: HasIndex(i) implies
\* KeyNumOfIndex(i) >= 1.
NoEmptyIndex ==
    \A i \in Indices : HasIndex(i) => KeyNumOfIndex(i) >= 1

\* C6 witness: an index with one key only, which RemoveIndex takes away
\* from it and with it the entry of the index, next to an index that stays.
NoEmptyIndexWitness ==
    \E k \in DOMAIN keys, i \in DOMAIN indices, other \in DOMAIN indices :
        /\ other # i
        /\ indices[i] = <<k>>
        /\ i \in Range(keys[k])
        /\ RemoveIndexOut(k, i).err = NoErr
        /\ DOMAIN RemoveIndexOut(k, i).indices = DOMAIN indices \ {i}

\* C7: no key's index list holds an index twice, and Insert(k, v, i, i)
\* leaves the state Insert(k, v, i) leaves.
NoDuplicateIndex ==
    /\ \A k \in DOMAIN keys : Distinct(keys[k])
    /\ \A k \in Keys \ DOMAIN keys, v \in Vals, i \in Indices :
           Room >= 2 =>
               LET twice == InsertOut(k, v, <<i, i>>)
                   once == InsertOut(k, v, <<i>>)
               IN  /\ twice.err = NoErr
                   /\ twice.values = once.values
                   /\ twice.keys = once.keys
                   /\ twice.indices = once.indices

\* C8: Insert(k, v, i1..in) of a key that is not stored succeeds; then
\* FetchByKey(k) returns v and FetchByIndex(ij) has v, the value of k, exactly
\* once for each ij; with no index IndexNum is what it was.
InsertThenFetch ==
    \A k \in Keys \ DOMAIN keys, v \in Vals, idxs \in Args :
        LET r == InsertOut(k, v, idxs)
        IN  /\ r.err = NoErr
            /\ fetchByKey(r.values, k) = [value |-> v, err |-> NoErr]
            /\ \A i \in Range(idxs) :
                   LET f == fetchByIndex(r.values, r.indices, i)
                   IN  /\ f.err = NoErr
                       /\ Cardinality({j \in 1..Len(f.values) :
                                          r.indices[i][j] = k /\ f.values[j] = v}) = 1
            /\ idxs = <<>> => Cardinality(DOMAIN r.indices) = IndexNum

\* C9: Insert of a key that is stored fails with "key duplicte" and leaves
\* the three maps as they were: the value is the first one, and no index of
\* the failing call is created or extended.
DuplicateKeyRejected ==
    \A k \in DOMAIN keys, v \in Vals, idxs \in Args :
        LET r == InsertOut(k, v, idxs)
        IN  /\ r.err = "key duplicte"
            /\ r.values = values
            /\ r.keys = keys
            /\ r.indices = indices

\* C9 witness: a stored key inserted again with another value, an index that
\* the store does not have and an index that it has.
DuplicateKeyRejectedWitness ==
    \E k \in DOMAIN keys, v \in Vals, idxs \in Args :
        /\ v # values[k]
        /\ Range(idxs) \ DOMAIN indices # {}
        /\ Range(idxs) \cap DOMAIN indices # {}
        /\ InsertOut(k, v, idxs).err = "key duplicte"

\* C10: FetchByIndex(i) returns the values in the order of i's key list; a
\* key that Insert or AddIndex puts under i goes to the end of that list, and
\* RemoveIndex, DeleteByKey and DeleteByIndex of another index leave the keys
\* that they do not remove in the order they had.
OrderKept ==
    /\ \A i \in DOMAIN indices :
           /\ Len(FetchByIndex(i).values) = Len(indices[i])
           /\ \A j \in 1..Len(indices[i]) :
                  indices[i][j] \in DOMAIN values =>
                      FetchByIndex(i).values[j] = values[indices[i][j]]
    /\ \A k \in Keys \ DOMAIN keys, v \in Vals, idxs \in Args :
           LET r == InsertOut(k, v, idxs)
           IN  \A i \in DOMAIN r.indices :
                   /\ IsPrefix(ListOf(indices, i), r.indices[i])
                   /\ \A j \in (Len(ListOf(indices, i)) + 1)..Len(r.indices[i]) :
                          r.indices[i][j] = k
                   /\ i \in Range(idxs) => r.indices[i][Len(r.indices[i])] = k
    /\ \A k \in DOMAIN keys, i \in Indices :
           LET r == AddIndexOut(k, i)
           IN  r.err = NoErr =>
                   /\ r.indices[i] = Append(ListOf(indices, i), k)
                   /\ \A o \in DOMAIN r.indices \ {i} : r.indices[o] = ListOf(indices, o)
    /\ \A k \in DOMAIN keys, i \in DOMAIN indices :
           LET r == RemoveIndexOut(k, i)
           IN  \A o \in DOMAIN indices :
                   Without(ListOf(r.indices, o), {k}) = Without(indices[o], {k})
    /\ \A k \in DOMAIN keys :
           LET r == DeleteByKeyOut(k)
           IN  \A o \in DOMAIN indices :
                   Without(ListOf(r.indices, o), {k}) = Without(indices[o], {k})
    /\ \A i \in DOMAIN indices :
           LET r == DeleteByIndexOut(i)
               gone == Range(indices[i])
           IN  \A o \in DOMAIN indices \ {i} :
                   Without(ListOf(r.indices, o), gone) = Without(indices[o], gone)

\* C10 witness: three keys with two different values under one index, in the
\* order they came; RemoveIndex of the first leaves the other two in theirs.
OrderKeptWitness ==
    \E i \in DOMAIN indices :
        /\ Len(indices[i]) = 3
        /\ Distinct(indices[i])
        /\ Range(indices[i]) \subseteq DOMAIN values
        /\ FetchByIndex(i).values[2] # FetchByIndex(i).values[3]
        /\ RemoveIndexOut(indices[i][1], i).indices[i] = <<indices[i][2], indices[i][3]>>

\* C11: RemoveIndex(k, i) with i not attached to k, be it that k is not
\* stored, that no key has i, or that only other keys have i, returns an
\* error and leaves keys and indices as they were.
RemoveIndexOfUnattachedFails ==
    \A k \in Keys, i \in Indices :
        (k \notin DOMAIN keys \/ i \notin Range(keys[k])) =>
            LET r == RemoveIndexOut(k, i)
            IN  /\ r.err # NoErr
                /\ r.keys = keys
                /\ r.indices = indices

\* C12: a successful RemoveIndex(k, i) takes i out of k's index list and k
\* out of i's key list; when k was the only key under i the index is gone
\* and IndexNum is one less, otherwise IndexNum is what it was; KeyNum is
\* what it was and k can still be fetched.
RemoveIndexRemovesPair ==
    \A k \in Keys, i \in Indices :
        LET r == RemoveIndexOut(k, i)
        IN  r.err = NoErr =>
                /\ i \notin Range(r.keys[k])
                /\ k \notin Range(ListOf(r.indices, i))
                /\ IF Range(indices[i]) = {k}
                   THEN /\ i \notin DOMAIN r.indices
                        /\ Cardinality(DOMAIN r.indices) = IndexNum - 1
                   ELSE Cardinality(DOMAIN r.indices) = IndexNum
                /\ Cardinality(DOMAIN r.keys) = KeyNum
                /\ fetchByKey(values, k).err = NoErr

\* C13: AddIndex(k, i) fails with "key not exist" when k is not stored and
\* with "index duplicte" when k has i, and then changes nothing; otherwise it
\* puts i at the end of k's index list and k at the end of i's key list,
\* making the entry of i when there was none, and touches no other list.
AddIndexAppends ==
    \A k \in Keys, i \in Indices :
        LET r == AddIndexOut(k, i)
        IN  IF k \notin DOMAIN keys
            THEN r.err = "key not exist" /\ r.keys = keys /\ r.indices = indices
            ELSE IF i \in Range(keys[k])
            THEN r.err = "index duplicte" /\ r.keys = keys /\ r.indices = indices
            ELSE /\ r.err = NoErr
                 /\ r.keys = Put(keys, k, Append(keys[k], i))
                 /\ DOMAIN r.indices = DOMAIN indices \cup {i}
                 /\ r.indices[i] = Append(ListOf(indices, i), k)
                 /\ \A o \in DOMAIN indices \ {i} : r.indices[o] = indices[o]

\* C13 witness: a store on which the three cases all happen: a key that is
\* not stored, a key with an index of its own, and a key taking an index that
\* another key has and an index that no key has.
AddIndexAppendsWitness ==
    \E absent \in Keys \ DOMAIN keys, k \in DOMAIN keys, other \in DOMAIN keys :
        \E own \in Range(keys[k]), shared \in DOMAIN indices, new \in Indices \ DOMAIN indices :
            /\ other # k
            /\ shared \notin Range(keys[k])
            /\ AddIndexOut(absent, own).err = "key not exist"
            /\ AddIndexOut(k, own).err = "index duplicte"
            /\ AddIndexOut(k, shared).indices[shared] = Append(indices[shared], k)
            /\ AddIndexOut(k, new).indices[new] = <<k>>

\* C14: FetchByKey and DeleteByKey of a key that is not stored fail with
\* "key not exist", FetchByIndex and DeleteByIndex of an index that no key
\* has fail with "index not exist", and the failing calls leave the three
\* maps as they were.
AbsentArgumentFails ==
    /\ \A k \in Keys \ DOMAIN keys :
           /\ FetchByKey(k) = [value |-> Nil, err |-> "key not exist"]
           /\ DeleteByKeyOut(k).err = "key not exist"
           /\ DeleteByKeyOut(k).values = values
           /\ DeleteByKeyOut(k).keys = keys
           /\ DeleteByKeyOut(k).indices = indices
    /\ \A i \in Indices \ DOMAIN indices :
           /\ FetchByIndex(i) = [values |-> <<>>, err |-> "index not exist"]
           /\ DeleteByIndexOut(i).err = "index not exist"
           /\ DeleteByIndexOut(i).values = values
           /\ DeleteByIndexOut(i).keys = keys
           /\ DeleteByIndexOut(i).indices = indices

\* C14 witness: a store that has a key and an index, asked for a key and an
\* index that it does not have.
AbsentArgumentFailsWitness ==
    \E k \in Keys \ DOMAIN keys, i \in Indices \ DOMAIN indices :
        /\ DOMAIN keys # {}
        /\ DOMAIN indices # {}
        /\ FetchByKey(k).err = "key not exist"
        /\ DeleteByKeyOut(k).err = "key not exist"
        /\ FetchByIndex(i).err = "index not exist"
        /\ DeleteByIndexOut(i).err = "index not exist"

\* What Transform and Foreach return on the store as it is.
TransformOut(order, fails) == transform(values, order, fails)

ForeachOut(order) == foreach(values, order)

\* C15: when the callback fails on a stored key, Transform returns the error
\* and an empty mapping, whatever the order of the iteration and the number
\* of keys transformed before; the failing call is the last call of the
\* callback.
TransformAllOrNothing ==
    \A order \in Orders(values), fails \in Callbacks :
        fails \cap DOMAIN values # {} =>
            LET r == TransformOut(order, fails)
                n == Len(r.calls)
            IN  /\ r.err = "error key"
                /\ r.targets = EmptyMap
                /\ n >= 1
                /\ r.calls[n][1] \in fails
                /\ \A j \in 1..(n - 1) : r.calls[j][1] \notin fails
                /\ \A j \in 1..n : r.calls[j] = <<order[j], values[order[j]]>>

\* C15 witness: three stored keys, the callback failing on the one that the
\* iteration reaches second, after one key was transformed.
TransformAllOrNothingWitness ==
    \E order \in Orders(values), fails \in Callbacks :
        /\ Len(order) = 3
        /\ order[2] \in fails
        /\ TransformOut(order, fails).err = "error key"
        /\ Len(TransformOut(order, fails).calls) = 2

\* C16: when the callback fails on no stored key, Transform returns a
\* mapping with the key set of the store, each key mapped to what the
\* callback returns for the key and its stored value, the callback having
\* been called once for each stored key; the store is as it was.
TransformMapsEveryKey ==
    \A order \in Orders(values), fails \in Callbacks :
        fails \cap DOMAIN values = {} =>
            LET r == TransformOut(order, fails)
            IN  /\ r.err = NoErr
                /\ DOMAIN r.targets = DOMAIN values
                /\ DOMAIN r.targets = DOMAIN keys
                /\ \A k \in DOMAIN values :
                       /\ r.targets[k] = callback(fails, k, values[k]).value
                       /\ Count(r.calls, <<k, values[k]>>) = 1
                /\ Len(r.calls) = KeyNum

\* C16 witness: three keys with three values, transformed by a callback that
\* fails on none of them.
TransformMapsEveryKeyWitness ==
    \E order \in Orders(values) :
        /\ Len(order) = 3
        /\ Cardinality({values[k] : k \in DOMAIN values}) = 3
        /\ TransformOut(order, {}).err = NoErr
        /\ Cardinality(DOMAIN TransformOut(order, {}).targets) = 3

\* C17: Foreach calls the callback once for every stored pair of key and
\* value, for the whole key set, and leaves the three maps as they were.
ForeachVisitsEveryPair ==
    \A order \in Orders(values) :
        LET calls == ForeachOut(order)
        IN  /\ Len(calls) = KeyNum
            /\ \A k \in DOMAIN values : Count(calls, <<k, values[k]>>) = 1
            /\ \A j \in 1..Len(calls) : calls[j][1] \in DOMAIN keys

\* C17 witness: a Foreach over three stored keys, one of them with an index.
ForeachVisitsEveryPairWitness ==
    \E order \in Orders(values) :
        /\ Len(ForeachOut(order)) = 3
        /\ DOMAIN indices # {}

\* The places of a method where it holds the Lock, and where it holds an
\* RLock.
WriteSection == {"write", "insert", "collect", "range", "Unlock"}
ReadSection == {"read", "RUnlock"}

\* No mutation is half done: the stored keys have their values, and the key
\* lists of the indices hold what the index lists of the keys say.
Whole ==
    /\ DOMAIN values = DOMAIN keys
    /\ \A k \in DOMAIN keys : \A i \in Range(keys[k]) :
           i \in DOMAIN indices /\ k \in Range(indices[i])
    /\ \A i \in DOMAIN indices : \A k \in Range(indices[i]) :
           k \in DOMAIN keys /\ i \in Range(keys[k])

\* C18: while a goroutine is between Lock and Unlock (a mutating method or a
\* tick of collect) no other goroutine is between Lock and Unlock or between
\* RLock and RUnlock; readers are together only with readers, and a reader
\* never finds the store with a mutation half done.
ExclusiveWriters ==
    /\ \A p \in Procs :
           pc[p] \in WriteSection =>
               \A q \in Procs \ {p} : pc[q] \notin WriteSection \cup ReadSection
    /\ (mtx.w = "held") <=> (\E p \in Procs : pc[p] \in WriteSection)
    /\ mtx.r = Cardinality({p \in Procs : pc[p] \in ReadSection})
    /\ (\E p \in Procs : pc[p] \in ReadSection) => Whole

\* C18 witness: an Insert half done, its key stored and not yet under its
\* index, while one goroutine waits in RLock and collect waits in Lock.
ExclusiveWritersWitness ==
    \E p \in Callers, q \in Callers :
        /\ pc[p] = "insert"
        /\ ~Whole
        /\ pc[q] = "RLock"
        /\ pc[Collector] = "Lock"

\* C19: every method gives back the lock it took, whatever it returns: when
\* no goroutine is in a method the mutex is free, and under fair scheduling
\* every call that has started returns.
LockAlwaysReleased ==
    /\ []((\A p \in Procs : pc[p] = "idle") => mtx = FreeMtx)
    /\ \A p \in Callers : (pc[p] # "idle") ~> (pc[p] = "idle")

\* C19 witness: an Insert about to return "key duplicte" while the other
\* caller waits for the lock.
LockAlwaysReleasedWitness ==
    \E p \in Callers, q \in Callers :
        /\ pc[p] = "Unlock"
        /\ local[p] = "key duplicte"
        /\ pc[q] \in {"Lock", "RLock"}

\* C20: on a store with an interval above 0, Insert of a value without the
\* method IsExpired fails and changes nothing: the key is not stored by it
\* and none of its indices is made or extended.
PlainValueRefused ==
    interval > 0 =>
        \A k \in Keys, idxs \in IndexLists(MaxIdx) :
            LET r == GenericEMapInsert(interval, Mem(keys, indices), values, keys, indices, k, ValueOf(k), idxs)
            IN  /\ r.err = "value type wrong"
                /\ r.values = values
                /\ r.keys = keys
                /\ r.indices = indices
                /\ k \notin DOMAIN keys => k \notin DOMAIN r.keys
                /\ \A i \in Range(idxs) : i \notin DOMAIN indices => i \notin DOMAIN r.indices

\* C20 witness: a store with an interval that holds a key under an index and
\* is given a plain value for a key and an index that it does not have, by a
\* caller that is about to return the error.
PlainValueRefusedWitness ==
    /\ interval > 0
    /\ \E p \in Callers : pc[p] = "Unlock" /\ local[p] = "value type wrong"
    /\ \E k \in Keys \ DOMAIN keys, i \in Indices \ DOMAIN indices :
           /\ DOMAIN indices # {}
           /\ GenericEMapInsert(interval, Mem(keys, indices), values, keys, indices, k, ValueOf(k), <<i>>).err
                  = "value type wrong"

\* C21: on a store with an interval above 0, under a fair ticker and a fair
\* lock, a stored value that says it is expired does not stay: its key comes
\* to be no key of the store, whether collect or a caller removes it; and a
\* key that is no key of the store becomes one again only by an Insert.
ExpiredIsCollected ==
    /\ \A k \in LockKeys :
           (interval > 0 /\ k \in DOMAIN values /\ IsExpired(values[k])) ~> ~HasKey(k)
    /\ [][\A k \in LockKeys :
              (~HasKey(k) /\ HasKey(k)') =>
                  \E p \in Callers : pc[p] = "write" /\ pc'[p] = "insert" /\ local'[p] = k]_vars

\* C21 witness: collect holds the lock on a store where a key under an index
\* has a value that says it is expired, and its loop removes the key whatever
\* the order of the iteration, while a caller waits for the lock.
ExpiredIsCollectedWitness ==
    /\ interval > 0
    /\ pc[Collector] = "collect"
    /\ \E p \in Callers : pc[p] = "LockWait" \/ pc[p] = "Lock"
    /\ \E k \in DOMAIN values :
           /\ IsExpired(values[k])
           /\ keys[k] # <<>>
           /\ \A order \in Orders(values) :
                  k \notin DOMAIN collectLoop(Mem(keys, indices), values, keys, indices, order, 1).keys

\* What a tick of collect makes of the store as it is, when no value changes
\* what it says during the tick.
CollectOut(order) == collectLoop(Mem(keys, indices), values, keys, indices, order, 1)

\* The stored keys whose values say that they are expired.
ExpiredKeys == {k \in DOMAIN values : IsExpired(values[k])}

\* C22: after a tick of collect that removes the expired keys, whatever the
\* number of their indices, no removed key is in the key list of an index,
\* an index that only removed keys carried is gone, and an index shared with
\* other keys lists those other keys as before.  The store is taken with its
\* two directions in agreement before the tick.
ReaperKeepsBothDirections ==
    BothDirectionsAgree =>
    \A order \in Orders(values) :
        LET r == CollectOut(order)
        IN  /\ \A i \in DOMAIN r.indices : Range(r.indices[i]) \cap ExpiredKeys = {}
            /\ \A i \in DOMAIN indices :
                   IF Range(indices[i]) \subseteq ExpiredKeys
                   THEN i \notin DOMAIN r.indices
                   ELSE /\ i \in DOMAIN r.indices
                        /\ r.indices[i] = Without(indices[i], ExpiredKeys)

\* C23: collect removes no value that says it is not expired.  A round of
\* its loop leaves every key but its own as it is, and its own as well when
\* the value says, in that round, that it is not expired: the key keeps its
\* value and its list of indices and is under the same indices as often as
\* before.  So does a whole tick in which no value changes what it says:
\* FetchByKey finds the value, and FetchByIndex finds it under its indices.
ReaperSparesTheLiving ==
    /\ [][CollectRound =>
              \A k \in DOMAIN values :
                  (k # Head(iter[Collector].todo) \/ ~IsExpired(values[k])) =>
                      /\ k \in DOMAIN values'
                      /\ values'[k] = values[k]
                      /\ keys'[k] = keys[k]
                      /\ \A i \in DOMAIN indices :
                             k \in Range(indices[i]) =>
                                 /\ i \in DOMAIN indices'
                                 /\ Count(indices'[i], k) = Count(indices[i], k)]_vars
    /\ [](\A order \in Orders(values) :
             LET r == CollectOut(order)
             IN  \A k \in DOMAIN values \ ExpiredKeys :
                     /\ k \in DOMAIN r.keys
                     /\ r.keys[k] = keys[k]
                     /\ fetchByKey(r.values, k) = [value |-> values[k], err |-> NoErr]
                     /\ \A i \in DOMAIN indices :
                            k \in Range(indices[i]) =>
                                /\ i \in DOMAIN r.indices
                                /\ Count(r.indices[i], k) = Count(indices[i], k)
                                /\ values[k] \in
                                       Range(fetchByIndex(r.values, r.indices, i).values))

\* C23 witness: collect is in its loop over two keys under one index, the
\* round of a key with a value that says it is not expired is over and has
\* left the key under the index, and the round to come is that of a key with
\* a value that says it is expired, which it removes.
ReaperSparesTheLivingWitness ==
    /\ pc[Collector] = "range"
    /\ Len(iter[Collector].todo) = 1
    /\ \E k \in DOMAIN values \ ExpiredKeys, e \in ExpiredKeys, i \in DOMAIN indices :
           /\ iter[Collector].todo = <<e>>
           /\ {k, e} \subseteq Range(indices[i])
           /\ e \notin DOMAIN collectBody(Mem(keys, indices), values, keys, indices, e).keys
           /\ k \in Range(collectBody(Mem(keys, indices), values, keys, indices, e).indices[i])

\* C24: NewExpirableEMap with an interval that is not above 0 makes what
\* NewGenericEMap makes; on such a store collect never runs, Insert takes a
\* value without the method IsExpired as insert does, and a key leaves the
\* store only in the step of a caller's method, also when its value says it
\* is expired.
NoIntervalNoReaper ==
    /\ [](\A itv \in Intervals : itv <= 0 => NewExpirableEMap(itv) = NewGenericEMap)
    /\ [](interval <= 0 =>
             /\ interval = NewGenericEMap.interval
             /\ pc[Collector] = "idle"
             /\ \A k \in LockKeys, idxs \in LockArgs, value \in Vals \cup ExpirableVals :
                    GenericEMapInsert(interval, Mem(keys, indices), values, keys, indices, k, value, idxs)
                        = insert(Mem(keys, indices), values, keys, indices, k, value, idxs))
    /\ [][interval <= 0 =>
              \A k \in DOMAIN values :
                  k \notin DOMAIN values' =>
                      \E p \in Callers : pc[p] = "write" /\ pc'[p] = "Unlock"]_vars

\* C24 witness: a store without interval that holds a value without the
\* method IsExpired and, under an index, a value that says it is expired,
\* with no goroutine in a method.
NoIntervalNoReaperWitness ==
    /\ interval <= 0
    /\ \A p \in Procs : pc[p] = "idle"
    /\ \E k \in DOMAIN values, e \in DOMAIN values :
           /\ ~hasIsExpired(values[k])
           /\ IsExpired(values[e])
           /\ keys[e] # <<>>

\* The errors by which a StrictEMap refuses an argument of the wrong type.
TypeErrors == {"key type wrong", "index type wrong", "value type wrong", "struct type wrong"}

\* The arguments a StrictEMap is given in the properties: those of the calls
\* and those that no map can hash.
AnyKeys == StrictKeys \cup Unhashables
AnyIndices == StrictIndices \cup Unhashables
AnyVals == StrictVals \cup Unhashables

\* C25: on a strict store FetchByKey, FetchByIndex, DeleteByKey,
\* DeleteByIndex, AddIndex and RemoveIndex given a key or an index of another
\* kind than the sample's fail with a type error, which is neither "key not
\* exist" nor "index not exist", and leave the three maps as they were.
StrictRefusesWrongKind ==
    strict.err = NoErr =>
        /\ \A key \in AnyKeys :
               Kind(key) # strict.keyType =>
                   /\ StrictEMapFetchByKey(strict, values, key).err \in TypeErrors
                   /\ LET r == StrictEMapDeleteByKey(strict, Mem(keys, indices), values,
                                                     keys, indices, key)
                      IN  /\ r.err \in TypeErrors
                          /\ r.values = values /\ r.keys = keys /\ r.indices = indices
                   /\ \A index \in AnyIndices :
                          /\ LET r == StrictEMapAddIndex(strict, Mem(keys, indices), keys, indices, key, index)
                             IN  /\ r.err \in TypeErrors
                                 /\ r.keys = keys /\ r.indices = indices
                          /\ LET r == StrictEMapRemoveIndex(strict, Mem(keys, indices), keys,
                                                            indices, key, index)
                             IN  /\ r.err \in TypeErrors
                                 /\ r.keys = keys /\ r.indices = indices
        /\ \A index \in AnyIndices :
               Kind(index) # strict.indexType =>
                   /\ StrictEMapFetchByIndex(strict, values, indices, index).err \in TypeErrors
                   /\ LET r == StrictEMapDeleteByIndex(strict, Mem(keys, indices), values,
                                                       keys, indices, index)
                      IN  /\ r.err \in TypeErrors
                          /\ r.values = values /\ r.keys = keys /\ r.indices = indices
                   /\ \A key \in AnyKeys :
                          /\ LET r == StrictEMapAddIndex(strict, Mem(keys, indices), keys, indices, key, index)
                             IN  /\ r.err \in TypeErrors
                                 /\ r.keys = keys /\ r.indices = indices
                          /\ LET r == StrictEMapRemoveIndex(strict, Mem(keys, indices), keys,
                                                            indices, key, index)
                             IN  /\ r.err \in TypeErrors
                                 /\ r.keys = keys /\ r.indices = indices

\* The key, an index or the value is not of the type of its sample.
WrongType(key, value, idxs) ==
    \/ Kind(key) # strict.keyType
    \/ \E j \in 1..Len(idxs) : Kind(idxs[j]) # strict.indexType
    \/ Kind(value) # strict.valueType
    \/ (strict.valueType = "struct" /\ TypeName(value) # strict.valueStruct)

\* C26: on a strict store Insert fails with a type error and stores nothing,
\* KeyNum and IndexNum being what they were, when the kind of the key, of an
\* index or of the value is not the kind of its sample, or when the value is
\* a struct of another name than the sample's; this also when the key is
\* stored already.
StrictInsertRefusesWrongType ==
    strict.err = NoErr =>
        \A key \in AnyKeys, value \in AnyVals, idxs \in Lists(AnyIndices, 2) :
            WrongType(key, value, idxs) =>
                LET r == StrictEMapInsert(strict, Mem(keys, indices), values, keys, indices, key, value, idxs)
                IN  /\ r.err \in TypeErrors
                    /\ r.values = values
                    /\ r.keys = keys
                    /\ r.indices = indices
                    /\ Cardinality(DOMAIN r.keys) = KeyNum
                    /\ Cardinality(DOMAIN r.indices) = IndexNum

\* C26 witness: a strict store with a struct sample that holds a key under
\* an index, given the stored key again with an index of the wrong kind, and
\* a new key with a struct of another name.
StrictInsertRefusesWrongTypeWitness ==
    /\ strict.err = NoErr
    /\ strict.valueType = "struct"
    /\ \E key \in DOMAIN keys, new \in StrictKeys \ DOMAIN keys, value \in StrictVals,
          other \in StrictVals, index \in StrictIndices, wrong \in StrictIndices :
           /\ keys[key] # <<>>
           /\ StrictEMapInsert(strict, Mem(keys, indices), values, keys, indices, key, value, <<index, wrong>>).err
                  = "index type wrong"
           /\ StrictEMapInsert(strict, Mem(keys, indices), values, keys, indices, new, other, <<index>>).err
                  = "struct type wrong"

\* C27: on a strict store HasKey, HasIndex, IndexNumOfKey and KeyNumOfIndex
\* given a key or an index of another kind than the sample's return false
\* and 0, and nothing else.
StrictAccessorsTotal ==
    strict.err = NoErr =>
        /\ \A key \in AnyKeys :
               Kind(key) # strict.keyType =>
                   /\ StrictEMapHasKey(strict, keys, key) = FALSE
                   /\ StrictEMapIndexNumOfKey(strict, keys, key) = 0
        /\ \A index \in AnyIndices :
               Kind(index) # strict.indexType =>
                   /\ StrictEMapHasIndex(strict, indices, index) = FALSE
                   /\ StrictEMapKeyNumOfIndex(strict, indices, index) = [num |-> 0, err |-> NoErr]

\* The kinds that are neither composite nor pointers nor references.
Primitive(kind) ==
    kind \in {"bool", "int", "int8", "int16", "int32", "int64", "uint", "uint8", "uint16",
              "uint32", "uint64", "uintptr", "float32", "float64", "complex64",
              "complex128", "string"}

\* The kinds of integers, floats, complex numbers and strings.
Numeric(kind) ==
    kind \in {"int", "int8", "int16", "int32", "int64", "uint", "uint8", "uint16",
              "uint32", "uint64", "float32", "float64", "complex64", "complex128",
              "string"}

\* C28 as it is stated: NewStrictEMap fails exactly when the kind of the key
\* sample or of the index sample is not a primitive one, the boolean kind
\* being among those it takes, whatever the value sample.
StrictTakesPrimitiveSamples ==
    strict.sample # <<>> =>
        ((strict.err # NoErr) <=>
            (~Primitive(Kind(strict.sample[1])) \/ ~Primitive(Kind(strict.sample[3]))))

\* C28, amended: NewStrictEMap fails with "key or index type not supported"
\* exactly when the kind of the key sample or of the index sample is not
\* that of an integer, a float, a complex number or a string: bool and
\* uintptr are refused as the composite kinds, the pointers and the
\* references are.  The value sample plays no part, and an instance that is
\* returned has the kinds of its three samples.
StrictTakesNumericSamples ==
    strict.sample # <<>> =>
        /\ (strict.err # NoErr) <=>
               (~Numeric(Kind(strict.sample[1])) \/ ~Numeric(Kind(strict.sample[3])))
        /\ strict.err # NoErr => strict.err = "key or index type not supported"
        /\ strict.err = NoErr =>
               /\ strict.keyType = Kind(strict.sample[1])
               /\ strict.valueType = Kind(strict.sample[2])
               /\ strict.indexType = Kind(strict.sample[3])

\* C28 witness: NewStrictEMap(true, testStruct{"123"}, 123) has failed.
StrictTakesNumericSamplesWitness ==
    /\ strict.sample # <<>>
    /\ Kind(strict.sample[1]) = "bool"
    /\ Kind(strict.sample[2]) = "struct"
    /\ Kind(strict.sample[3]) = "int"
    /\ strict.err = "key or index type not supported"

\* One call on the three maps as they are gives the same result, error and
\* maps included, on the store without lock, on the generic store and on the
\* strict store.
SameInsert(key, value, idxs) ==
    LET u == UnlockEMapInsert(Mem(keys, indices), values, keys, indices, key, value, idxs)
    IN  /\ GenericEMapInsert(NewGenericEMap.interval, Mem(keys, indices), values, keys, indices, key, value, idxs) = u
        /\ StrictEMapInsert(strict, Mem(keys, indices), values, keys, indices, key, value, idxs) = u

SameKeyCalls(key) ==
    /\ FetchByKey(key) = UnlockEMapFetchByKey(values, key)
    /\ StrictEMapFetchByKey(strict, values, key) = UnlockEMapFetchByKey(values, key)
    /\ DeleteByKeyOut(key) = UnlockEMapDeleteByKey(Mem(keys, indices), values, keys, indices, key)
    /\ StrictEMapDeleteByKey(strict, Mem(keys, indices), values, keys, indices, key)
           = UnlockEMapDeleteByKey(Mem(keys, indices), values, keys, indices, key)
    /\ IndexNumOfKey(key) = UnlockEMapIndexNumOfKey(keys, key)
    /\ StrictEMapIndexNumOfKey(strict, keys, key) = UnlockEMapIndexNumOfKey(keys, key)
    /\ HasKey(key) = UnlockEMapHasKey(keys, key)
    /\ StrictEMapHasKey(strict, keys, key) = UnlockEMapHasKey(keys, key)

SameIndexCalls(index) ==
    /\ FetchByIndex(index) = UnlockEMapFetchByIndex(values, indices, index)
    /\ StrictEMapFetchByIndex(strict, values, indices, index)
           = UnlockEMapFetchByIndex(values, indices, index)
    /\ DeleteByIndexOut(index)
           = UnlockEMapDeleteByIndex(Mem(keys, indices), values, keys, indices, index)
    /\ StrictEMapDeleteByIndex(strict, Mem(keys, indices), values, keys, indices, index)
           = UnlockEMapDeleteByIndex(Mem(keys, indices), values, keys, indices, index)
    /\ KeyNumOfIndex(index) = UnlockEMapKeyNumOfIndex(indices, index)
    /\ StrictEMapKeyNumOfIndex(strict, indices, index)
           = [num |-> UnlockEMapKeyNumOfIndex(indices, index), err |-> NoErr]
    /\ HasIndex(index) = UnlockEMapHasIndex(indices, index)
    /\ StrictEMapHasIndex(strict, indices, index) = UnlockEMapHasIndex(indices, index)

SamePairCalls(key, index) ==
    /\ AddIndexOut(key, index) = UnlockEMapAddIndex(Mem(keys, indices), keys, indices, key, index)
    /\ StrictEMapAddIndex(strict, Mem(keys, indices), keys, indices, key, index)
           = UnlockEMapAddIndex(Mem(keys, indices), keys, indices, key, index)
    /\ RemoveIndexOut(key, index)
           = UnlockEMapRemoveIndex(Mem(keys, indices), keys, indices, key, index)
    /\ StrictEMapRemoveIndex(strict, Mem(keys, indices), keys, indices, key, index)
           = UnlockEMapRemoveIndex(Mem(keys, indices), keys, indices, key, index)

\* C29 as it is stated: from the maps a sequence of calls has made, every
\* call whose key, value and indices have the kinds of the samples of the
\* strict store returns the same and leaves the same maps on the three
\* stores; the three stores starting empty, so do whole sequences.
SameOnMatchingKinds ==
    strict.err = NoErr =>
        /\ \A key \in StrictKeys, value \in StrictVals, idxs \in Lists(StrictIndices, 2) :
               (/\ Kind(key) = strict.keyType
                /\ Kind(value) = strict.valueType
                /\ \A j \in 1..Len(idxs) : Kind(idxs[j]) = strict.indexType)
                   => SameInsert(key, value, idxs)
        /\ \A key \in StrictKeys : Kind(key) = strict.keyType => SameKeyCalls(key)
        /\ \A index \in StrictIndices : Kind(index) = strict.indexType => SameIndexCalls(index)
        /\ \A key \in StrictKeys, index \in StrictIndices :
               (Kind(key) = strict.keyType /\ Kind(index) = strict.indexType)
                   => SamePairCalls(key, index)

\* C29, amended: the same for the calls whose arguments have the types of
\* the samples, that is their kinds and, for a value that is a struct, also
\* the name of the struct of the value sample.
SameOnMatchingTypes ==
    strict.err = NoErr =>
        /\ \A key \in StrictKeys, value \in StrictVals, idxs \in Lists(StrictIndices, 2) :
               ~WrongType(key, value, idxs) => SameInsert(key, value, idxs)
        /\ \A key \in StrictKeys : Kind(key) = strict.keyType => SameKeyCalls(key)
        /\ \A index \in StrictIndices : Kind(index) = strict.indexType => SameIndexCalls(index)
        /\ \A key \in StrictKeys, index \in StrictIndices :
               (Kind(key) = strict.keyType /\ Kind(index) = strict.indexType)
                   => SamePairCalls(key, index)

\* C29 witness: a strict store that holds two keys under one index, where
\* an Insert of a stored key fails and a DeleteByIndex and an Insert of a
\* new key succeed, on the three stores alike.
SameOnMatchingTypesWitness ==
    /\ strict.err = NoErr
    /\ \E index \in DOMAIN indices, key \in DOMAIN keys, value \in StrictVals :
           /\ Len(indices[index]) = 2
           /\ StrictEMapDeleteByIndex(strict, Mem(keys, indices), values, keys, indices,
                                      index).err = NoErr
           /\ UnlockEMapDeleteByIndex(Mem(keys, indices), values, keys, indices,
                                      index).values = EmptyMap
           /\ ~WrongType(key, value, <<index>>)
           /\ StrictEMapInsert(strict, Mem(keys, indices), values, keys, indices, key, value, <<index>>).err
                  = "key duplicte"
           /\ UnlockEMapInsert(Mem(keys, indices), values, keys, indices, key, value, <<index>>).err
                  = "key duplicte"

\* The indices that a stored key carries.
CarriedIndices == UNION {Range(keys[k]) : k \in DOMAIN keys \cap DOMAIN values}

\* C30: KeyNum is the number of stored keys and IndexNum the number of
\* indices that at least one stored key carries; for a key that is not stored
\* IndexNumOfKey is 0 and HasKey false, for an index that no stored key
\* carries KeyNumOfIndex is 0 and HasIndex false.  (The accessors and the
\* two fetches read the maps and assign none of them.)
AccessorsCountTheStored ==
    /\ KeyNum = Cardinality(DOMAIN values)
    /\ IndexNum = Cardinality(CarriedIndices)
    /\ \A key \in Keys :
           key \notin DOMAIN values => IndexNumOfKey(key) = 0 /\ ~HasKey(key)
    /\ \A index \in Indices :
           index \notin CarriedIndices => KeyNumOfIndex(index) = 0 /\ ~HasIndex(index)

\* C31: DeleteByIndex(ix) removes the keys under ix altogether: none of them
\* is left in the key list of any other index, an other index that had no
\* key but these is gone, and a key that was not under ix has the value and
\* the index list it had.
DeleteByIndexCascades ==
    BothDirectionsAgree =>
        \A index \in DOMAIN indices :
            LET r == DeleteByIndexOut(index)
                gone == Range(indices[index])
            IN  /\ r.err = NoErr
                /\ \A o \in DOMAIN r.indices \ {index} : Range(r.indices[o]) \cap gone = {}
                /\ \A o \in DOMAIN indices \ {index} :
                       Range(indices[o]) \subseteq gone => o \notin DOMAIN r.indices
                /\ \A k \in DOMAIN keys \ gone :
                       /\ k \in DOMAIN r.keys /\ r.keys[k] = keys[k]
                       /\ k \in DOMAIN r.values /\ r.values[k] = values[k]

\* C32: DeleteByKey(k) and RemoveIndex(k, i) change nothing but what is k's:
\* every other key has the value and the index list it had, and the keys
\* other than k are in every index's key list in the order they were;
\* RemoveIndex, which is not handed the values, leaves k its other indices
\* in the order they had.
OnlyTheKeyIsTouched ==
    /\ \A k \in DOMAIN keys :
           LET r == DeleteByKeyOut(k)
           IN  /\ \A o \in DOMAIN keys \ {k} :
                      /\ o \in DOMAIN r.keys /\ r.keys[o] = keys[o]
                      /\ (o \in DOMAIN values) =>
                             (o \in DOMAIN r.values /\ r.values[o] = values[o])
               /\ \A i \in DOMAIN indices :
                      Without(ListOf(r.indices, i), {k}) = Without(indices[i], {k})
               /\ DOMAIN r.indices \subseteq DOMAIN indices
    /\ \A k \in Keys, i \in Indices :
           LET r == RemoveIndexOut(k, i)
           IN  r.err = NoErr =>
                   /\ \A o \in DOMAIN keys \ {k} :
                          o \in DOMAIN r.keys /\ r.keys[o] = keys[o]
                   /\ \A x \in DOMAIN indices :
                          Without(ListOf(r.indices, x), {k}) = Without(indices[x], {k})
                   /\ DOMAIN r.indices \subseteq DOMAIN indices
                   /\ k \in DOMAIN r.keys
                   /\ Without(r.keys[k], {i}) = Without(keys[k], {i})
                   /\ \A x \in Range(keys[k]) \ {i} :
                          Count(r.keys[k], x) = Count(keys[k], x)

\* C33: Insert(k, v, indices...) of a key that is not stored, with distinct
\* indices however many, and then DeleteByKey(k), gives back the three maps
\* of before the Insert, every key list in its order.
InsertThenDeleteByKey ==
    BothDirectionsAgree =>
        \A k \in Keys \ DOMAIN keys, v \in Vals, idxs \in Args :
            Distinct(idxs) =>
                LET a == InsertOut(k, v, idxs)
                    b == deleteByKey(MemAfter(a), a.values, a.keys, a.indices, k)
                IN  /\ a.err = NoErr
                    /\ b.err = NoErr
                    /\ b.values = values
                    /\ b.keys = keys
                    /\ b.indices = indices

\* C34: AddIndex(k, i) of a stored key k and an index i that k does not
\* have, and then RemoveIndex(k, i), gives back the keys and the indices of
\* before the AddIndex; an entry of i that the AddIndex made is gone again.
AddThenRemoveIndex ==
    \A k \in DOMAIN keys : \A i \in Indices \ Range(keys[k]) :
        LET a == AddIndexOut(k, i)
            b == removeIndex(MemAfter(a), a.keys, a.indices, k, i)
        IN  /\ a.err = NoErr
            /\ b.err = NoErr
            /\ b.keys = keys
            /\ b.indices = indices

\* C35: in every reachable state the index lists of the stored keys have
\* together as many entries as the key lists of the indices: the sum of
\* IndexNumOfKey over the keys is the sum of KeyNumOfIndex over the indices.
CountViewsAgree ==
    SumLen(keys, DOMAIN keys) = SumLen(indices, DOMAIN indices)

\* C36: RemoveIndex looks for the key before it looks for the index: with
\* neither the key nor the index in the store the error is "key not exist",
\* and with the key stored and the index nowhere in the store it is "index
\* not exist"; in both cases nothing changes.
RemoveIndexKeyFirst ==
    \A k \in Keys, i \in Indices \ DOMAIN indices :
        LET r == RemoveIndexOut(k, i)
        IN  /\ r.err = IF k \in DOMAIN keys THEN "index not exist" ELSE "key not exist"
            /\ r.keys = keys
            /\ r.indices = indices

\* C36 witness: a store with a key under an index; another index is nowhere
\* in the store, and RemoveIndex of it fails in the one way for the stored key
\* and in the other for a key that is not stored.
RemoveIndexKeyFirstWitness ==
    \E k \in DOMAIN keys, o \in Keys \ DOMAIN keys, i \in Indices \ DOMAIN indices :
        /\ keys[k] # <<>>
        /\ RemoveIndexOut(k, keys[k][1]).err = NoErr
        /\ RemoveIndexOut(k, i).err = "index not exist"
        /\ RemoveIndexOut(o, i).err = "key not exist"

\* The goroutine is in a callback of a Foreach or a Transform.
InCallback(p) == iter[p].method \in Iterations

\* C37: a writing method called by the callback of a Foreach or a Transform
\* on the store that runs the callback never returns: the goroutine stays at
\* the method's Lock, which waits for the RLock that the goroutine itself
\* holds, and the iteration goes no further.
CallbackWriteNeverReturns ==
    [][\A p \in Callers :
          (InCallback(p) /\ pc[p] \in {"Lock", "LockWait"}) =>
              /\ pc'[p] \in {"Lock", "LockWait"}
              /\ iter'[p] = iter[p]
              /\ mtx.r >= 1 /\ mtx'.r >= 1
              /\ mtx'.w # "held"]_vars

\* C37 witness: the callback's Lock is announced and waits, in a Foreach and
\* in a Transform, for the RLock of the iteration.
CallbackWriteNeverReturnsWitness ==
    \E p \in Callers, q \in Callers :
        /\ p # q
        /\ iter[p].method = "Foreach" /\ iter[p].todo # <<>>
        /\ pc[p] = "LockWait"
        /\ mtx = [w |-> "pending", r |-> 2]
        /\ iter[q].method = "Transform"
        /\ pc[q] = "Lock"

\* C38: once a Lock is announced, by collect or by a caller, while the
\* callback of a Foreach or a Transform is at the RLock of a reading method
\* of the same store, neither gets any further: the RLock waits for the
\* Lock and the Lock for the RLock of the iteration.
CallbackReadBlocks ==
    [][\A p \in Callers :
          (pc[p] = "cbRLock" /\ mtx.w = "pending") =>
              /\ pc'[p] = "cbRLock"
              /\ iter'[p] = iter[p]
              /\ mtx'.w = "pending"
              /\ \A q \in Procs : pc[q] = "LockWait" => pc'[q] = "LockWait"]_vars

\* C38 witness: on a store with an interval, the tick of collect has
\* announced its Lock after the RLock of the iteration and before the RLock
\* of the HasKey that the callback calls.
CallbackReadBlocksWitness ==
    \E p \in Callers :
        /\ interval > 0
        /\ InCallback(p)
        /\ pc[p] = "cbRLock"
        /\ pc[Collector] = "LockWait"
        /\ mtx = [w |-> "pending", r |-> 1]

\* C39: the slice that FetchByIndex returned and the map that Transform
\* returned are the caller's own: no later Insert, DeleteByKey,
\* DeleteByIndex, AddIndex, RemoveIndex and no round of the loop of collect
\* changes what is in them, and a caller that changes them changes none of
\* the three maps of the store.
ResultsAreSnapshots ==
    [][/\ StoreStep => Held' = Held
       /\ ResultStep => UNCHANGED <<values, keys, indices>>]_vars

\* C39 witness: the caller holds the map that Transform returned when two
\* keys were stored, with what the callback made of their values then; one
\* of the two structs has been set expired since, and the store has lost
\* both keys.
ResultsAreSnapshotsWitness ==
    /\ result.method = "Transform"
    /\ result.map = [k \in {"key1", "key2"} |->
                        <<k, IF k = "key1" THEN "struct1" ELSE "struct2">>]
    /\ IsExpired(result.map["key1"][2])
    /\ ~IsExpired(result.map["key2"][2])
    /\ values = EmptyMap
    /\ keys = EmptyMap
    /\ interval > 0

====
